---------------------------- MODULE Spec2Model ----------------------------
(***************************************************************************)
(* State-machine model of the tiled Mandelbrot explorer                    *)
(* (xorza/mandelbrot-explorer): the tile scheduler and texture cache of    *)
(* src/src/mandel_texture.rs and the buffer pool of src/src/buffer_pool.rs.*)
(*                                                                         *)
(* Fractal-plane coordinates are integers: every viewport the controller   *)
(* produces has an even number of units per pixel, so that the centres and *)
(* the divisions the code performs in f64 are exact.  The texture is       *)
(* scaled down to TEXTURE_SIZE / TILE_SIZE = 3 tiles per side.             *)
(*                                                                         *)
(* Threads: the main thread runs update() and render(); the tasks of the   *)
(* tokio runtime run on its worker threads.  A task reads only its tile's  *)
(* cancel token and writes only its tile's state, each access to a tile's  *)
(* state is one critical section of that tile's mutex, and the main thread *)
(* visits the tiles one lock at a time, so a step of a task on one tile    *)
(* commutes with the main thread's work on every other tile: update() and  *)
(* render() are one action each, and a task takes a step between them.     *)
(***************************************************************************)
EXTENDS Integers, Sequences, FiniteSets, TLC

\* ------------------------------------------------------------------------
\* Program constants and bounds of the model
\* ------------------------------------------------------------------------

\* const TILE_SIZE: u32 = 64
TILE_SIZE == 64

\* texture_size = 1024 * 8 in the source; three tiles per side here
TEXTURE_SIZE == 192

\* num_cpus::get_physical()
cpu_core_count == 1

\* worker threads of the tokio runtime (Runtime::new(): one per logical
\* core): on the machine of Spec, and on the machine of SpecWide
WorkerThreads == 2

WideWorkerThreads == 1

\* number of update() calls in one behaviour
MaxUpdates == 3

\* units of the fractal plane per pixel the controller zooms between
Scales == {2, 4}

InitialScale == CHOOSE s \in Scales : \A t \in Scales : s <= t

Vec2(x, y) == [x |-> x, y |-> y]

\* window sizes the shell reports: the ones the texture can hold, and the
\* ones wider than the texture
InitialWindow == Vec2(64, 32)

WindowSizes == {Vec2(64, 32), Vec2(64, 64)}

WideWindowSizes == {Vec2(256, 64)}

\* pointer deltas (pixels) of a drag; the zero delta repeats the viewport
PanPixels == {Vec2(0, 0), Vec2(-32, 0)}

\* the window pixel the pointer rests on
Pointer == Vec2(10, 4)

\* ------------------------------------------------------------------------
\* Math primitives (RectF64 / Vec2f64)
\* ------------------------------------------------------------------------

length_squared(v) == v.x * v.x + v.y * v.y

from_pos_size(p, s) == [pos |-> p, size |-> s]

from_center_size(c, s) ==
    [pos |-> Vec2(c.x - s.x \div 2, c.y - s.y \div 2), size |-> s]

center(r) == Vec2(r.pos.x + r.size.x \div 2, r.pos.y + r.size.y \div 2)

\* a contains b: <= on the lower and on the upper bounds
contains(a, b) ==
    /\ a.pos.x <= b.pos.x
    /\ a.pos.y <= b.pos.y
    /\ b.pos.x + b.size.x <= a.pos.x + a.size.x
    /\ b.pos.y + b.size.y <= a.pos.y + a.size.y

\* rectangles are half-open on the upper edge
intersects(a, b) ==
    /\ a.pos.x < b.pos.x + b.size.x
    /\ b.pos.x < a.pos.x + a.size.x
    /\ a.pos.y < b.pos.y + b.size.y
    /\ b.pos.y < a.pos.y + a.size.y

zeroed == [pos |-> Vec2(0, 0), size |-> Vec2(0, 0)]

\* ------------------------------------------------------------------------
\* Tile grid
\* ------------------------------------------------------------------------

tile_count == TEXTURE_SIZE \div TILE_SIZE

TileIndex == 0 .. (tile_count * tile_count - 1)

\* MandelTexture::new: tile `index` is pushed at (i, j), index = i * tile_count + j
tex_rect(index) ==
    [pos  |-> Vec2((index \div tile_count) * TILE_SIZE,
                   (index % tile_count) * TILE_SIZE),
     size |-> Vec2(TILE_SIZE, TILE_SIZE)]

\* Tile::fractal_rect
Tile_fractal_rect(index, tex_size, rect) ==
    LET r == tex_rect(index)
    IN  from_pos_size(
            Vec2(rect.pos.x + (rect.size.x * r.pos.x) \div tex_size,
                 rect.pos.y + (rect.size.y * r.pos.y) \div tex_size),
            Vec2((rect.size.x * r.size.x) \div tex_size,
                 (rect.size.y * r.size.y) \div tex_size))

Idle == [kind |-> "Idle"]

Ready == [kind |-> "Ready"]

Computing(handle) == [kind |-> "Computing", task_handle |-> handle]

WaitForUpload(buf) == [kind |-> "WaitForUpload", buffer |-> buf]

\* Vec::new(): the empty vector the uploader swaps into the tile state
EmptyBuffer == [len |-> 0, rect |-> zeroed, upd |-> 0]

\* ------------------------------------------------------------------------
\* State
\* ------------------------------------------------------------------------

VARIABLES
    \* MandelTexture
    window_size, frame_rect, fractal_rect, fractal_rect_prev, fractal_scale,
    frame_changed, tiles, tile_state, cancel_token,
    texture1, texture2, semaphore,
    \* tokio runtime: its worker threads and the spawned tasks, the result
    \* of the compute of the task that ended last
    worker_threads, tasks, task_result,
    \* the redraw request the tile-ready callback posts to the event loop
    redraw_requested,
    \* the last update() call: its number, its local frame_changed, whether
    \* it repeated the viewport of the update() before it
    upd,
    \* the last render() call: whether it blitted, the tiles it uploaded and
    \* the texture it wrote them to
    frame,
    \* what the main thread did last
    last_op

texVars == <<window_size, frame_rect, fractal_rect, fractal_rect_prev,
             fractal_scale, frame_changed, tiles, tile_state, cancel_token,
             texture1, texture2, semaphore, worker_threads, tasks,
             task_result, redraw_requested, upd, frame, last_op>>

VARIABLES
    \* BufferPool: whether the pool value is still owned (not dropped)
    pool_alive,
    \* Arc<BufferPoolInner>: strong count (0: freed), available, total_allocated
    inner,
    \* the BufferHandle of every take(): where its owner is, the storage in
    \* its data
    handles,
    \* the allocator: the state of every storage
    heap,
    \* a caller of taken_buffer_count: where it is, what it loaded, its result
    pool_obs,
    \* BufferPool::new's reserved_count, the allocations made inside take(),
    \* whether a take() ran after a handle began to drop
    pool_hist,
    \* the Vec<u8> behind every storage: its length and what its bytes hold
    \* (zeroes, or what the holder of a handle wrote)
    storage,
    \* the data mutex of every handle: the guards that are out
    data_lock

poolVars == <<pool_alive, inner, handles, heap, pool_obs, pool_hist,
              storage, data_lock>>

VARIABLES
    \* one call of mandelbrot_simd: its arguments, its loop counters, the
    \* pixels it has written, its result
    simd,
    \* the cancel token of that call and the pixels written when it was raised
    simd_cancel

simdVars == <<simd, simd_cancel>>

VARIABLES
    \* the tile mutexes and the mutex of the event loop proxy
    main,               \* the main thread: its pass over the tiles
    held,               \* held[th]: the locks thread th holds
    jobs,               \* jobs[s]: the spawned task in slot s
    lstate,             \* lstate[t]: the TileState behind the mutex of t
    passes              \* render_fractal() calls made

lockVars == <<main, held, jobs, lstate, passes>>

VARIABLES
    \* the event loops and the error scopes of their device
    app_state,          \* main.rs: AppState and its device
    base                \* app_base.rs: the locals of start() and its device

loopVars == <<app_state, base>>

VARIABLES
    \* one call of pixel()
    px                  \* its arguments, locals and result

pixelVars == <<px>>

VARIABLES
    \* the iteration limit update() computes
    iter                \* the cache size and the max_iterations it gives

iterVars == <<iter>>

VARIABLES
    \* tiled_fractal_app.rs: TiledFractalApp, the tiles its scheduler works
    \* on and the TileReady events on their way to the event loop
    fractal_app

appVars == <<fractal_app>>

vars == <<texVars, poolVars, simdVars, lockVars, loopVars, pixelVars,
        iterVars, appVars>>

nonTexVars ==
    <<poolVars, simdVars, lockVars, loopVars, pixelVars, iterVars, appVars>>

nonPoolVars ==
    <<texVars, simdVars, lockVars, loopVars, pixelVars, iterVars, appVars>>

nonSimdVars ==
    <<texVars, poolVars, lockVars, loopVars, pixelVars, iterVars, appVars>>

nonLockVars ==
    <<texVars, poolVars, simdVars, loopVars, pixelVars, iterVars, appVars>>

nonLoopVars ==
    <<texVars, poolVars, simdVars, lockVars, pixelVars, iterVars, appVars>>

nonPixelVars ==
    <<texVars, poolVars, simdVars, lockVars, loopVars, iterVars, appVars>>

nonIterVars ==
    <<texVars, poolVars, simdVars, lockVars, loopVars, pixelVars, appVars>>

nonAppVars ==
    <<texVars, poolVars, simdVars, lockVars, loopVars, pixelVars, iterVars>>

\* ------------------------------------------------------------------------
\* Initial state: MandelTexture::new
\* ------------------------------------------------------------------------

NoData == [src |-> "none"]

Blitted == [src |-> "blit"]

\* the cells of a tile after write_texture: what was uploaded and the cache
\* rect the buffer was computed for
Uploaded(buf) == [src |-> "upload", rect |-> buf.rect]

InitTexture(threads) ==
    /\ worker_threads = threads
    /\ window_size = InitialWindow
    /\ frame_rect = zeroed
    /\ fractal_rect = zeroed
    /\ fractal_rect_prev = zeroed
    /\ fractal_scale = 1
    /\ frame_changed = FALSE
    /\ tiles = [i \in 1 .. (tile_count * tile_count) |-> i - 1]
    /\ tile_state = [t \in TileIndex |-> Idle]
    /\ cancel_token = [t \in TileIndex |-> 0]
    /\ texture1 = [id |-> 1, data |-> [t \in TileIndex |-> NoData]]
    /\ texture2 = [id |-> 2, data |-> [t \in TileIndex |-> NoData]]
    /\ semaphore = cpu_core_count * 2
    /\ tasks = {}
    /\ task_result = "none"
    /\ redraw_requested = FALSE
    /\ upd = [no |-> 0, frame_changed |-> FALSE, same |-> FALSE,
              focus |-> Vec2(0, 0)]
    /\ frame = [blitted |-> FALSE, uploads |-> {}, front |-> 1,
                rect |-> zeroed]
    /\ last_op = "new"

\* ------------------------------------------------------------------------
\* MandelTexture::update
\* ------------------------------------------------------------------------

\* an update() that takes every call for a cache transition
every_update_changes(fr, rect, scale) == TRUE

\* an update() that looks at off_frame alone
off_frame_only(fr, rect, scale) == ~contains(rect, fr)

\* lines 387-389: frame_changed = off_frame || scale_changed
update_frame_changed(fr, rect, scale) ==
    LET scale_changed == length_squared(fr.size) # scale
        off_frame == ~contains(rect, fr)
    IN  off_frame \/ scale_changed

\* lines 394-397: the new cache rectangle, a square around the viewport centre
new_fractal_rect(fr, ws) ==
    LET side == (fr.size.x * TEXTURE_SIZE) \div ws.x
    IN  from_center_size(center(fr), Vec2(side, side))

\* lines 405-419: squared distance of the tile centre to the focus
focus_dist(index, rect, focus) ==
    LET c == center(Tile_fractal_rect(index, TEXTURE_SIZE, rect))
    IN  length_squared(Vec2(c.x - focus.x, c.y - focus.y))

\* a sort that puts the farthest tile first
RECURSIVE sort_farthest_first(_, _)
sort_farthest_first(ts, dist) ==
    IF ts = {} THEN {<<>>}
    ELSE LET farthest == {t \in ts : \A u \in ts : dist[t] >= dist[u]}
         IN  UNION {{<<t>> \o o : o \in sort_farthest_first(ts \ {t}, dist)}
                    : t \in farthest}

\* a sort that keeps the nearest tile alone
sort_nearest_only(ts, dist) ==
    {<<t>> : t \in {n \in ts : \A u \in ts : dist[n] <= dist[u]}}

\* sort_unstable_by: every order of the tiles `ts` that is ascending in the
\* distance `dist` (the order of tiles at equal distance is not specified)
RECURSIVE sort_unstable_by(_, _)
sort_unstable_by(ts, dist) ==
    IF ts = {} THEN {<<>>}
    ELSE LET nearest == {t \in ts : \A u \in ts : dist[t] <= dist[u]}
         IN  UNION {{<<t>> \o o : o \in sort_unstable_by(ts \ {t}, dist)}
                    : t \in nearest}

sorted_orders(rect, focus) ==
    sort_unstable_by(TileIndex,
                     [t \in TileIndex |-> focus_dist(t, rect, focus)])

\* The task update() spawns for a tile (lines 452-484)
NewTask(t, no, token, rect) ==
    [tile |-> t, upd |-> no, cancel_token_value |-> token,
     fractal_rect |-> rect, pc |-> "spawned", aborted |-> FALSE,
     permit |-> FALSE]

Handle(j) == <<j.tile, j.upd>>

\* update_tile that takes a Ready tile for one to compute
update_tile_respawns_ready(t, st, tok, changed, fr, rect, no) ==
    LET st1  == IF changed THEN Idle ELSE st
        tok1 == IF changed THEN tok + 1 ELSE tok
        ab1  == IF changed /\ st.kind = "Computing"
                    THEN {st.task_handle} ELSE {}
        visible == intersects(fr, Tile_fractal_rect(t, TEXTURE_SIZE, rect))
    IN  IF ~visible
            THEN IF st1.kind = "Computing"
                    THEN [state |-> Idle, token |-> tok1 + 1,
                          aborts |-> ab1 \cup {st1.task_handle}, spawn |-> {}]
                    ELSE [state |-> st1, token |-> tok1,
                          aborts |-> ab1, spawn |-> {}]
        ELSE IF st1.kind \notin {"Idle", "Ready"}
            THEN [state |-> st1, token |-> tok1, aborts |-> ab1, spawn |-> {}]
        ELSE [state |-> Computing(<<t, no>>), token |-> tok1,
              aborts |-> ab1, spawn |-> {NewTask(t, no, tok1, rect)}]

\* update_tile without the `!frame_rect.intersects(&tile_rect)` branch of
\* lines 438-446
update_tile_ignores_view(t, st, tok, changed, fr, rect, no) ==
    LET st1  == IF changed THEN Idle ELSE st
        tok1 == IF changed THEN tok + 1 ELSE tok
        ab1  == IF changed /\ st.kind = "Computing"
                    THEN {st.task_handle} ELSE {}
    IN  IF st1.kind # "Idle"
            THEN [state |-> st1, token |-> tok1, aborts |-> ab1, spawn |-> {}]
        ELSE [state |-> Computing(<<t, no>>), token |-> tok1,
              aborts |-> ab1, spawn |-> {NewTask(t, no, tok1, rect)}]

\* update_tile without the `state != Idle => return` of lines 448-450
update_tile_no_skip(t, st, tok, changed, fr, rect, no) ==
    LET st1  == IF changed THEN Idle ELSE st
        tok1 == IF changed THEN tok + 1 ELSE tok
        ab1  == IF changed /\ st.kind = "Computing"
                    THEN {st.task_handle} ELSE {}
        visible == intersects(fr, Tile_fractal_rect(t, TEXTURE_SIZE, rect))
    IN  IF ~visible
            THEN IF st1.kind = "Computing"
                    THEN [state |-> Idle, token |-> tok1 + 1,
                          aborts |-> ab1 \cup {st1.task_handle}, spawn |-> {}]
                    ELSE [state |-> st1, token |-> tok1,
                          aborts |-> ab1, spawn |-> {}]
        ELSE [state |-> Computing(<<t, no>>), token |-> tok1,
              aborts |-> ab1, spawn |-> {NewTask(t, no, tok1, rect)}]

\* update() that sets every tile outside the viewport Idle, whatever state
\* it is in
update_tile_idles_hidden(t, st, tok, changed, fr, rect, no) ==
    LET st1  == IF changed THEN Idle ELSE st
        tok1 == IF changed THEN tok + 1 ELSE tok
        ab1  == IF changed /\ st.kind = "Computing"
                    THEN {st.task_handle} ELSE {}
        visible == intersects(fr, Tile_fractal_rect(t, TEXTURE_SIZE, rect))
    IN  IF ~visible
            THEN IF st1.kind = "Computing"
                    THEN [state |-> Idle, token |-> tok1 + 1,
                          aborts |-> ab1 \cup {st1.task_handle}, spawn |-> {}]
                    ELSE [state |-> Idle, token |-> tok1,
                          aborts |-> ab1, spawn |-> {}]
        ELSE IF st1.kind # "Idle"
            THEN [state |-> st1, token |-> tok1, aborts |-> ab1, spawn |-> {}]
        ELSE [state |-> Computing(<<t, no>>), token |-> tok1,
              aborts |-> ab1, spawn |-> {NewTask(t, no, tok1, rect)}]

\* lines 424-488: what update() does to one tile while it holds the tile's
\* lock: the new state and cancel token, the handles it aborts, the task
\* it spawns
update_tile(t, st, tok, changed, fr, rect, no) ==
    LET st1  == IF changed THEN Idle ELSE st
        tok1 == IF changed THEN tok + 1 ELSE tok
        ab1  == IF changed /\ st.kind = "Computing"
                    THEN {st.task_handle} ELSE {}
        visible == intersects(fr, Tile_fractal_rect(t, TEXTURE_SIZE, rect))
    IN  IF ~visible
            THEN IF st1.kind = "Computing"
                    THEN [state |-> Idle, token |-> tok1 + 1,
                          aborts |-> ab1 \cup {st1.task_handle}, spawn |-> {}]
                    ELSE [state |-> st1, token |-> tok1,
                          aborts |-> ab1, spawn |-> {}]
        ELSE IF st1.kind # "Idle"
            THEN [state |-> st1, token |-> tok1, aborts |-> ab1, spawn |-> {}]
        ELSE [state |-> Computing(<<t, no>>), token |-> tok1,
              aborts |-> ab1, spawn |-> {NewTask(t, no, tok1, rect)}]

\* JoinHandle::abort on every handle of `hs`: a task that is not being
\* polled is dropped by the runtime and never runs again; a task inside
\* mandelbrot_simd has no await point left and runs on
abort_all(ts, hs) ==
    {[j EXCEPT !.aborted = (@ \/ Handle(j) \in hs)] :
        j \in {k \in ts : ~(Handle(k) \in hs /\ k.pc = "spawned")}}

\* update(frame_rect, focus, tile_ready_callback), lines 378-490, called
\* with the window size `ws` that resize_window stored
update(fr, focus, ws) ==
    LET changed == update_frame_changed(fr, fractal_rect, fractal_scale)
        rect == IF changed THEN new_fractal_rect(fr, ws) ELSE fractal_rect
        no == upd.no + 1
        res == [t \in TileIndex |->
                   update_tile(t, tile_state[t], cancel_token[t], changed,
                               fr, rect, no)]
        aborts == UNION {res[t].aborts : t \in TileIndex}
    IN  /\ upd.no < MaxUpdates
        /\ frame_rect' = fr
        /\ frame_changed' = (frame_changed \/ changed)
        /\ fractal_rect_prev' = IF changed THEN fractal_rect
                                           ELSE fractal_rect_prev
        /\ fractal_scale' = IF changed THEN length_squared(fr.size)
                                       ELSE fractal_scale
        /\ fractal_rect' = rect
        /\ tiles' \in sorted_orders(rect, focus)
        /\ tile_state' = [t \in TileIndex |-> res[t].state]
        /\ cancel_token' = [t \in TileIndex |-> res[t].token]
        /\ tasks' = abort_all(tasks, aborts)
                      \cup UNION {res[t].spawn : t \in TileIndex}
        /\ upd' = [no |-> no, frame_changed |-> changed, focus |-> focus,
                   same |-> (last_op = "update" /\ fr = frame_rect
                             /\ ws = window_size)]
        /\ last_op' = "update"
        /\ UNCHANGED <<texture1, texture2, semaphore, worker_threads,
                       task_result, redraw_requested, frame>>
        /\ UNCHANGED nonTexVars

\* MandelTexture::resize_window
resize_window(ws) == window_size' = ws

\* ------------------------------------------------------------------------
\* Fractal view controller: the gestures that call update()
\* ------------------------------------------------------------------------

ViewScale == frame_rect.size.x \div window_size.x

\* the fractal point under the pointer: the focus the tiles are ordered by
focus_of(fr, ws) ==
    Vec2(fr.pos.x + (Pointer.x * fr.size.x) \div ws.x,
         fr.pos.y + (Pointer.y * fr.size.y) \div ws.y)

\* Init: the viewport is created from the window aspect around the origin
Start ==
    /\ upd.no = 0
    /\ UNCHANGED window_size
    /\ LET fr == from_center_size(Vec2(0, 0),
                     Vec2(InitialScale * window_size.x,
                          InitialScale * window_size.y))
       IN  update(fr, focus_of(fr, window_size), window_size)

\* pointer move by d pixels while dragging: the centre moves by -delta * size
Pan ==
    /\ upd.no > 0
    /\ UNCHANGED window_size
    /\ \E d \in PanPixels :
         LET c  == center(frame_rect)
             fr == from_center_size(
                       Vec2(c.x - (d.x * frame_rect.size.x) \div window_size.x,
                            c.y + (d.y * frame_rect.size.y) \div window_size.y),
                       frame_rect.size)
         IN  update(fr, focus_of(fr, window_size), window_size)

\* scroll: the size is scaled and the point under the pointer stays where
\* it is
Zoom ==
    /\ upd.no > 0
    /\ UNCHANGED window_size
    /\ \E k \in Scales \ {ViewScale} :
         LET f  == focus_of(frame_rect, window_size)
             fr == from_pos_size(Vec2(f.x - Pointer.x * k, f.y - Pointer.y * k),
                       Vec2(k * window_size.x, k * window_size.y))
         IN  update(fr, f, window_size)

\* resize: the viewport size scales by new_window / old_window about the
\* centre, then update() runs again
resize_to(ws) ==
    /\ resize_window(ws)
    /\ LET fr == from_center_size(center(frame_rect),
                     Vec2((frame_rect.size.x * ws.x) \div window_size.x,
                          (frame_rect.size.y * ws.y) \div window_size.y))
       IN  update(fr, focus_of(fr, ws), ws)

Resize ==
    /\ upd.no > 0
    /\ \E ws \in WindowSizes \ {window_size} : resize_to(ws)

\* the window is stretched beyond the texture size
ResizeWide ==
    /\ upd.no > 0
    /\ \E ws \in WideWindowSizes \ {window_size} : resize_to(ws)

\* ------------------------------------------------------------------------
\* The worker task spawned by update() (lines 462-484)
\* ------------------------------------------------------------------------

\* tasks that occupy a worker thread of the runtime
Active(ts) == {j \in ts : j.pc \in {"running", "ok"}}

\* mandelbrot_simd: Vec<Pixel> of 2 * size.x * size.y cells
ComputedBuffer(j) ==
    [len |-> 2 * tex_rect(j.tile).size.x * tex_rect(j.tile).size.y,
     rect |-> j.fractal_rect, upd |-> j.upd]

\* line 463, `let _ = semaphore.acquire().await.unwrap();`: the task after
\* the statement.  The pattern `_` binds nothing, so the permit is dropped
\* when the statement ends and the task goes on without one
acquire_permit(j) == [j EXCEPT !.pc = "running", !.permit = FALSE]

\* permits left in the semaphore after the statement of line 463
permits_after_acquire(n, j1) == IF j1.permit THEN n - 1 ELSE (n - 1) + 1

\* a worker thread polls the task: it passes the semaphore and enters
\* mandelbrot_simd
TaskAcquire ==
    \E j \in tasks :
        /\ j.pc = "spawned"
        /\ Cardinality(Active(tasks)) < worker_threads
        /\ semaphore > 0
        /\ semaphore' = permits_after_acquire(semaphore, acquire_permit(j))
        /\ tasks' = (tasks \ {j}) \cup {acquire_permit(j)}
        /\ UNCHANGED <<window_size, frame_rect, fractal_rect,
                       fractal_rect_prev, fractal_scale, frame_changed,
                       tiles, tile_state, cancel_token, texture1, texture2,
                       worker_threads, task_result, redraw_requested, upd,
                       frame, last_op>>
        /\ UNCHANGED nonTexVars

\* the task ends: a permit it still holds goes back to the semaphore
release_permit(n, j) == IF j.permit THEN n + 1 ELSE n

\* a worker that puts its tile back to Idle when its compute was cancelled
cancelled_sets_idle(j, st, ready) == [state |-> Idle, ready |-> ready]

\* lines 474-483 for a compute that returned Err: `.ok()` turns the error
\* into None and the `if let Some(buf)` body is skipped; the tile state and
\* the notifications stay as they are
cancelled_effect(j, st, ready) == [state |-> st, ready |-> ready]

\* a poll of the cancel token inside mandelbrot_simd finds it changed
\* (mandelbrot_simd.rs lines 84-88): Err("Cancelled"), and the task ends
TaskCancelled ==
    \E j \in tasks :
        /\ j.pc = "running"
        /\ cancel_token[j.tile] # j.cancel_token_value
        /\ LET e == cancelled_effect(j, tile_state[j.tile], redraw_requested)
           IN  /\ tile_state' = [tile_state EXCEPT ![j.tile] = e.state]
               /\ redraw_requested' = e.ready
        /\ semaphore' = release_permit(semaphore, j)
        /\ tasks' = tasks \ {j}
        /\ task_result' = "Cancelled"
        /\ UNCHANGED <<window_size, frame_rect, fractal_rect,
                       fractal_rect_prev, fractal_scale, frame_changed,
                       tiles, cancel_token, texture1, texture2,
                       worker_threads, upd, frame, last_op>>
        /\ UNCHANGED nonTexVars

\* what a panic in a spawned task does: the runtime catches the unwind and
\* keeps it in the JoinHandle as JoinError::Panic, which nobody awaits; a
\* build with panic = "abort" ends the process instead
panic_outcomes == {"Panic", "process aborted"}

\* the task panics inside the compute (lines 463-474)
TaskPanic ==
    \E j \in tasks :
        /\ j.pc = "running"
        /\ semaphore' = release_permit(semaphore, j)
        /\ tasks' = tasks \ {j}
        /\ task_result' \in panic_outcomes
        /\ UNCHANGED <<window_size, frame_rect, fractal_rect,
                       fractal_rect_prev, fractal_scale, frame_changed,
                       tiles, tile_state, cancel_token, texture1, texture2,
                       worker_threads, redraw_requested, upd, frame,
                       last_op>>
        /\ UNCHANGED nonTexVars

\* the last poll of the cancel token finds it unchanged: the routine fills
\* the remaining cells and returns Ok(buffer)
TaskComputed ==
    \E j \in tasks :
        /\ j.pc = "running"
        /\ cancel_token[j.tile] = j.cancel_token_value
        /\ tasks' = (tasks \ {j}) \cup {[j EXCEPT !.pc = "ok"]}
        /\ UNCHANGED <<window_size, frame_rect, fractal_rect,
                       fractal_rect_prev, fractal_scale, frame_changed,
                       tiles, tile_state, cancel_token, texture1, texture2,
                       semaphore, worker_threads, task_result,
                       redraw_requested, upd, frame, last_op>>
        /\ UNCHANGED nonTexVars

\* lines 477-483 for a compute that returned Ok: under the tile's lock the
\* state becomes WaitForUpload { buffer } and the callback is called
stored_effect(j, st, ready) ==
    [state |-> WaitForUpload(ComputedBuffer(j)), ready |-> TRUE]

TaskStore ==
    \E j \in tasks :
        /\ j.pc = "ok"
        /\ LET e == stored_effect(j, tile_state[j.tile], redraw_requested)
           IN  /\ tile_state' = [tile_state EXCEPT ![j.tile] = e.state]
               /\ redraw_requested' = e.ready
        /\ semaphore' = release_permit(semaphore, j)
        /\ tasks' = tasks \ {j}
        /\ task_result' = "Ok"
        /\ UNCHANGED <<window_size, frame_rect, fractal_rect,
                       fractal_rect_prev, fractal_scale, frame_changed,
                       tiles, cancel_token, texture1, texture2,
                       worker_threads, upd, frame, last_op>>
        /\ UNCHANGED nonTexVars

\* ------------------------------------------------------------------------
\* MandelTexture::render
\* ------------------------------------------------------------------------

\* the part of the state render() works on
RenderState ==
    [texture1 |-> texture1, texture2 |-> texture2,
     frame_changed |-> frame_changed, fractal_rect |-> fractal_rect,
     fractal_rect_prev |-> fractal_rect_prev, tile_state |-> tile_state,
     blitted |-> FALSE, uploads |-> {}, front |-> texture1.id]

\* a blit that draws into the back texture and leaves the two where they are
blit_without_swap(s) ==
    IF ~s.frame_changed THEN s
    ELSE [s EXCEPT
            !.texture2 = [s.texture2 EXCEPT
                            !.data = [t \in TileIndex |-> Blitted]],
            !.frame_changed = FALSE,
            !.fractal_rect_prev = s.fractal_rect,
            !.blitted = TRUE]

\* blit_textures (lines 498-560): draw the front texture into the back one
\* under the prev -> cache projection, swap the two, clear the pending flag
blit_textures(s) ==
    IF ~s.frame_changed THEN s
    ELSE [s EXCEPT
            !.texture1 = [s.texture2 EXCEPT
                            !.data = [t \in TileIndex |-> Blitted]],
            !.texture2 = s.texture1,
            !.frame_changed = FALSE,
            !.fractal_rect_prev = s.fractal_rect,
            !.blitted = TRUE]

\* an uploader that leaves the tile Idle
upload_tile_sets_idle(st) ==
    IF st.kind = "WaitForUpload"
        THEN [state |-> Idle, buff |-> {st.buffer}]
        ELSE [state |-> st, buff |-> {}]

\* an uploader that takes the buffer and leaves the state for later
upload_tile_take_only(st) ==
    IF st.kind = "WaitForUpload"
        THEN [state |-> WaitForUpload(EmptyBuffer), buff |-> {st.buffer}]
        ELSE [state |-> st, buff |-> {}]

\* upload_tiles, one tile (lines 566-580): under the tile's lock take the
\* buffer of a WaitForUpload tile and leave the tile Ready
upload_tile(st) ==
    IF st.kind = "WaitForUpload"
        THEN [state |-> Ready, buff |-> {st.buffer}]
        ELSE [state |-> st, buff |-> {}]

\* upload_tiles (lines 562-607): every tile in turn; a taken buffer is
\* written into texture1 at the tile's tex_rect
RECURSIVE upload_tiles(_, _)
upload_tiles(order, s) ==
    IF order = <<>> THEN s
    ELSE LET t == Head(order)
             r == upload_tile(s.tile_state[t])
             s1 == IF r.buff = {}
                     THEN [s EXCEPT !.tile_state[t] = r.state]
                     ELSE [s EXCEPT
                             !.tile_state[t] = r.state,
                             !.texture1.data[t] =
                                 Uploaded(CHOOSE b \in r.buff : TRUE),
                             !.uploads = @ \cup {t},
                             !.front = s.texture1.id]
         IN  upload_tiles(Tail(order), s1)

\* a render() that uploads before it blits
upload_then_blit(order, s) == blit_textures(upload_tiles(order, s))

\* render (lines 492-496): blit_textures, then upload_tiles, then
\* surface_render, which only reads the state
render_passes(order, s) == upload_tiles(order, blit_textures(s))

Render ==
    LET s == render_passes(tiles, RenderState)
    IN  /\ texture1' = s.texture1
        /\ texture2' = s.texture2
        /\ frame_changed' = s.frame_changed
        /\ fractal_rect_prev' = s.fractal_rect_prev
        /\ tile_state' = s.tile_state
        /\ frame' = [blitted |-> s.blitted, uploads |-> s.uploads,
                     front |-> s.front, rect |-> fractal_rect]
        /\ redraw_requested' = FALSE
        /\ last_op' = "render"
        /\ UNCHANGED <<window_size, frame_rect, fractal_rect, fractal_scale,
                       tiles, cancel_token, semaphore, worker_threads, tasks,
                       task_result, upd>>
        /\ UNCHANGED nonTexVars

\* ------------------------------------------------------------------------
\* Buffer pool (src/src/buffer_pool.rs)
\* ------------------------------------------------------------------------

\* number of take() calls in one behaviour
MaxHandles == 3

\* largest reserved_count passed to BufferPool::new
MaxReserve == 2

\* the buf_size passed to BufferPool::new
BufSize == 2

HandleIds == 1 .. MaxHandles

\* identities of the Vec<u8> storages the allocator hands out
BufferIds == 1 .. (MaxReserve + MaxHandles)

\* the empty Vec std::mem::take leaves behind: no storage
NoStorage == 0

RECURSIVE Occurrences(_, _)
Occurrences(seq, x) ==
    IF seq = <<>> THEN 0
    ELSE (IF Head(seq) = x THEN 1 ELSE 0) + Occurrences(Tail(seq), x)

\* what a call of taken_buffer_count gave: nothing yet, the value n
NoCount == [outcome |-> "none", n |-> 0]
Returned(n) == [outcome |-> "value", n |-> n]

\* a storage the allocator has not handed out
NoVec == [len |-> 0, bytes |-> <<"none", 0>>]

\* a vec! whose length is one short of the size asked for
short_vec(n) == [len |-> n - 1, bytes |-> <<"zeroed", 0>>]

\* vec![0u8; n]
zeroed_vec(n) == [len |-> n, bytes |-> <<"zeroed", 0>>]

\* the application of this version declares the module and builds no pool
NoPool ==
    /\ pool_alive = FALSE
    /\ inner = [buf_size |-> 0, strong |-> 0, available |-> <<>>,
                total_allocated |-> 0]
    /\ storage = [b \in BufferIds |-> NoVec]
    /\ data_lock = [h \in HandleIds |-> 0]
    /\ handles = [h \in HandleIds |-> [pc |-> "none", data |-> NoStorage]]
    /\ heap = [b \in BufferIds |-> "unallocated"]
    /\ pool_obs = [pc |-> "idle", allocated |-> 0, result |-> NoCount]
    /\ pool_hist = [reserved_count |-> 0, fresh |-> 0, interleaved |-> FALSE]

\* BufferPool::new(buf_size, reserved_count): reserved_count zeroed buffers
\* are pushed and counted
new(reserved_count) ==
    /\ pool_alive = TRUE
    /\ inner = [buf_size |-> BufSize, strong |-> 1,
                available |-> [i \in 1 .. reserved_count |-> i],
                total_allocated |-> reserved_count]
    /\ storage = [b \in BufferIds |->
                     IF b <= reserved_count THEN zeroed_vec(BufSize)
                                            ELSE NoVec]
    /\ data_lock = [h \in HandleIds |-> 0]
    /\ handles = [h \in HandleIds |-> [pc |-> "none", data |-> NoStorage]]
    /\ heap = [b \in BufferIds |->
                  IF b <= reserved_count THEN "allocated" ELSE "unallocated"]
    /\ pool_obs = [pc |-> "idle", allocated |-> 0, result |-> NoCount]
    /\ pool_hist = [reserved_count |-> reserved_count, fresh |-> 0,
                    interleaved |-> FALSE]

\* vec![0u8; buf_size]: a storage the allocator has not handed out
fresh_storage == CHOOSE b \in BufferIds : heap[b] = "unallocated"

\* a take() that allocates without counting
take_uncounted(inn, fresh_vec) ==
    IF inn.available # <<>>
        THEN [vec |-> inn.available[Len(inn.available)],
              inner |-> [inn EXCEPT
                           !.available = SubSeq(@, 1, Len(@) - 1)],
              allocated |-> FALSE]
        ELSE [vec |-> fresh_vec, inner |-> inn, allocated |-> TRUE]

\* a take() that allocates whatever the available list holds
take_always_allocates(inn, fresh_vec) ==
    [vec |-> fresh_vec,
     inner |-> [inn EXCEPT !.total_allocated = @ + 1],
     allocated |-> TRUE]

\* take(), lines 58-69: the guard of available.lock() lives to the end of
\* the `let` statement, so the pop and the closure that counts and
\* allocates run under the lock.  The result: the storage, the pool after
\* the statement, whether the closure ran
take(inn, fresh_vec) ==
    IF inn.available # <<>>
        THEN [vec |-> inn.available[Len(inn.available)],
              inner |-> [inn EXCEPT
                           !.available = SubSeq(@, 1, Len(@) - 1)],
              allocated |-> FALSE]
        ELSE [vec |-> fresh_vec,
              inner |-> [inn EXCEPT !.total_allocated = @ + 1],
              allocated |-> TRUE]

Dropping(hs) == {h \in HandleIds : hs[h].pc \notin {"none", "live"}}

\* BufferPool::take, lines 57-75, returning handle h
take_handle(h) ==
        /\ pool_alive
        /\ handles[h].pc = "none"
        /\ \A g \in HandleIds : g < h => handles[g].pc # "none"
        /\ LET r == take(inner, fresh_storage)
           IN  /\ inner' = r.inner
               /\ handles' = [handles EXCEPT
                                ![h] = [pc |-> "live", data |-> r.vec]]
               /\ heap' = IF r.allocated
                             THEN [heap EXCEPT ![r.vec] = "allocated"]
                             ELSE heap
               /\ storage' = IF r.allocated
                                THEN [storage EXCEPT
                                        ![r.vec] = zeroed_vec(inner.buf_size)]
                                ELSE storage
               /\ pool_hist' = [pool_hist EXCEPT
                                  !.fresh = IF r.allocated THEN @ + 1 ELSE @,
                                  !.interleaved =
                                      @ \/ Dropping(handles) # {}]
        /\ UNCHANGED <<pool_alive, pool_obs, data_lock>>
        /\ UNCHANGED nonPoolVars

\* take() on the thread that owns the pool, which is not inside
\* taken_buffer_count
Take == \E h \in HandleIds : pool_obs.pc = "idle" /\ take_handle(h)

\* take(&self) on another thread, between the two reads of
\* taken_buffer_count
TakeWhileCounting ==
    \E h \in HandleIds : pool_obs.pc = "loaded" /\ take_handle(h)

\* Weak::upgrade: Some while the pool's inner value is alive
upgrade(inn) == inn.strong > 0

\* the strong reference of a dropped Arc: the last one frees the inner
\* value, and with it the storages of its available list
release(inn) ==
    IF inn.strong = 1
        THEN [inn EXCEPT !.strong = 0, !.available = <<>>]
        ELSE [inn EXCEPT !.strong = @ - 1]

freed_by_release(inn) ==
    IF inn.strong = 1 THEN {inn.available[i] : i \in 1 .. Len(inn.available)}
    ELSE {}

\* Drop for BufferHandle, line 30: the weak reference is upgraded.  When the
\* pool is gone the body is skipped and the fields are dropped: the storage
\* is freed
DropUpgrade ==
    \E h \in HandleIds :
        /\ handles[h].pc = "live"
        /\ data_lock[h] = 0
        /\ IF upgrade(inner)
              THEN /\ inner' = [inner EXCEPT !.strong = @ + 1]
                   /\ handles' = [handles EXCEPT ![h].pc = "upgraded"]
                   /\ UNCHANGED heap
              ELSE /\ handles' = [handles EXCEPT
                                    ![h] = [pc |-> "dropped",
                                            data |-> NoStorage]]
                   /\ heap' = [heap EXCEPT ![handles[h].data] = "freed"]
                   /\ UNCHANGED inner
        /\ UNCHANGED <<pool_alive, pool_obs, pool_hist, storage, data_lock>>
        /\ UNCHANGED nonPoolVars

\* a drop that pushes a copy and leaves the storage in the handle, whose
\* field drop then pushes again
drop_push_twice(inn, h) ==
    [inner  |-> [inn EXCEPT !.available = Append(Append(@, h.data), h.data)],
     handle |-> [h EXCEPT !.pc = "pushed", !.data = 0]]

\* lines 31-33: under the data lock and the available lock the storage is
\* moved out of the handle (std::mem::take) and pushed
drop_push(inn, h) ==
    [inner  |-> [inn EXCEPT !.available = Append(@, h.data)],
     handle |-> [h EXCEPT !.pc = "pushed", !.data = NoStorage]]

DropPush ==
    \E h \in HandleIds :
        /\ handles[h].pc = "upgraded"
        /\ LET r == drop_push(inner, handles[h])
           IN  /\ inner' = r.inner
               /\ handles' = [handles EXCEPT ![h] = r.handle]
        /\ UNCHANGED <<pool_alive, heap, pool_obs, pool_hist, storage,
                       data_lock>>
        /\ UNCHANGED nonPoolVars

\* lines 34-35: the upgraded reference goes out of scope, the (empty) data
\* is dropped
DropRelease ==
    \E h \in HandleIds :
        /\ handles[h].pc = "pushed"
        /\ inner' = release(inner)
        /\ heap' = [b \in BufferIds |->
                       IF b \in freed_by_release(inner) THEN "freed"
                                                        ELSE heap[b]]
        /\ handles' = [handles EXCEPT ![h].pc = "dropped"]
        /\ UNCHANGED <<pool_alive, pool_obs, pool_hist, storage, data_lock>>
        /\ UNCHANGED nonPoolVars

\* the owner drops the BufferPool (no borrow of it is in use)
PoolDrop ==
    /\ pool_alive
    /\ pool_obs.pc = "idle"
    /\ pool_alive' = FALSE
    /\ inner' = release(inner)
    /\ heap' = [b \in BufferIds |->
                   IF b \in freed_by_release(inner) THEN "freed" ELSE heap[b]]
    /\ UNCHANGED <<handles, pool_obs, pool_hist, storage, data_lock>>
    /\ UNCHANGED nonPoolVars

\* a lock that is granted whatever guards are out
lock_granted_always(guards) == TRUE

\* BufferHandle::lock, lines 23-25: parking_lot's Mutex::lock returns when no
\* other guard of the data is out
lock_granted(guards) == guards = 0

\* a holder of the handle locks its data
HandleLock ==
    \E h \in HandleIds :
        /\ handles[h].pc = "live"
        /\ lock_granted(data_lock[h])
        /\ data_lock' = [data_lock EXCEPT ![h] = @ + 1]
        /\ UNCHANGED <<pool_alive, inner, handles, heap, pool_obs, pool_hist,
                       storage>>
        /\ UNCHANGED nonPoolVars

\* the bytes of the Vec are overwritten through the guard by the holder of
\* handle h
write_bytes(vec, h) == [vec EXCEPT !.bytes = <<"written", h>>]

HandleWrite ==
    \E h \in HandleIds :
        /\ data_lock[h] > 0
        /\ storage' = [storage EXCEPT
                          ![handles[h].data] = write_bytes(@, h)]
        /\ storage' # storage
        /\ UNCHANGED <<pool_alive, inner, handles, heap, pool_obs, pool_hist,
                       data_lock>>
        /\ UNCHANGED nonPoolVars

\* the guard is dropped
HandleUnlock ==
    \E h \in HandleIds :
        /\ data_lock[h] > 0
        /\ data_lock' = [data_lock EXCEPT ![h] = @ - 1]
        /\ UNCHANGED <<pool_alive, inner, handles, heap, pool_obs, pool_hist,
                       storage>>
        /\ UNCHANGED nonPoolVars

\* line 80, (allocated - available) as u32: the usize subtraction panics on
\* overflow in a debug build and wraps in a release build, where the cast
\* keeps the low 32 bits: 2^32 - (available - allocated), written as its
\* distance below u32::MAX
taken_buffer_count(allocated, available) ==
    IF allocated >= available THEN {Returned(allocated - available)}
    ELSE {[outcome |-> "panic", n |-> 0],
          [outcome |-> "u32::MAX - n", n |-> available - allocated - 1]}

\* line 78: total_allocated is loaded
CountLoad ==
    /\ pool_alive
    /\ pool_obs.pc = "idle"
    /\ pool_obs' = [pool_obs EXCEPT !.pc = "loaded",
                                    !.allocated = inner.total_allocated]
    /\ UNCHANGED <<pool_alive, inner, handles, heap, pool_hist, storage,
                   data_lock>>
    /\ UNCHANGED nonPoolVars

\* lines 79-80: the length is read under the lock, the difference returned
CountLen ==
    /\ pool_obs.pc = "loaded"
    /\ \E c \in taken_buffer_count(pool_obs.allocated, Len(inner.available)) :
         pool_obs' = [pool_obs EXCEPT !.pc = "idle", !.result = c]
    /\ UNCHANGED <<pool_alive, inner, handles, heap, pool_hist, storage,
                   data_lock>>
    /\ UNCHANGED nonPoolVars

\* ------------------------------------------------------------------------
\* The compute routine (src/src/mandelbrot_simd.rs)
\* ------------------------------------------------------------------------

\* const SIMD_LANE_COUNT: usize = 8
SIMD_LANE_COUNT == 8

\* the pixel distance of two polls of the cancel token (line 84)
POLL_PIXELS == 32

\* rows of the tile_rect of the call
ComputeRows == 2

\* the tile_rect.size of the call: a tile of the texture, and a narrow one
ComputeSizes == {Vec2(TILE_SIZE, ComputeRows), Vec2(24, ComputeRows)}

\* no call is in progress
NoCompute ==
    /\ simd = [size |-> Vec2(0, 0), cancel_token_value |-> 0, y |-> 0,
               x |-> 0, pc |-> "done", written |-> 0, result |-> "none"]
    /\ simd_cancel = [token |-> 0, raised_at |-> -1]

\* mandelbrot_simd is entered (lines 43-82): the buffer is allocated, the
\* loops start at the first block of the first row
InitCompute ==
    /\ \E size \in ComputeSizes :
         simd = [size |-> size, cancel_token_value |-> 0, y |-> 0, x |-> 0,
                 pc |-> "poll", written |-> 0, result |-> "none"]
    /\ simd_cancel = [token |-> 0, raised_at |-> -1]

\* a routine that polls every 64 pixels
polls_every_64(x) == (x * SIMD_LANE_COUNT) % 64 = 0

\* line 84: the token is polled at the blocks that start a run of 32 pixels
polls(x) == (x * SIMD_LANE_COUNT) % POLL_PIXELS = 0

\* lines 84-89: the poll at the head of the loop body
SimdPoll ==
    /\ simd.pc = "poll"
    /\ simd.y < simd.size.y
    /\ IF polls(simd.x) /\ simd_cancel.token # simd.cancel_token_value
          THEN simd' = [simd EXCEPT !.pc = "done", !.result = "Cancelled"]
          ELSE simd' = [simd EXCEPT !.pc = "write"]
    /\ UNCHANGED simd_cancel
    /\ UNCHANGED nonSimdVars

\* lines 91-104: the block of SIMD_LANE_COUNT pixels is computed and copied
\* into the buffer, and the loops advance
SimdWrite ==
    /\ simd.pc = "write"
    /\ LET last == simd.x + 1 = simd.size.x \div SIMD_LANE_COUNT
       IN  simd' = [simd EXCEPT !.pc = "poll",
                                !.written = @ + SIMD_LANE_COUNT,
                                !.x = IF last THEN 0 ELSE @ + 1,
                                !.y = IF last THEN @ + 1 ELSE @]
    /\ UNCHANGED simd_cancel
    /\ UNCHANGED nonSimdVars

\* line 196: the loops are over, Ok(buffer)
SimdReturn ==
    /\ simd.pc = "poll"
    /\ simd.y = simd.size.y
    /\ simd' = [simd EXCEPT !.pc = "done", !.result = "Ok"]
    /\ UNCHANGED simd_cancel
    /\ UNCHANGED nonSimdVars

\* update() raises the token of the tile while the call runs
\* (mandel_texture.rs lines 428, 441)
CancelRaise ==
    /\ simd.pc # "done"
    /\ simd_cancel.raised_at = -1
    /\ simd_cancel' = [token |-> simd_cancel.token + 1,
                       raised_at |-> simd.written]
    /\ UNCHANGED simd
    /\ UNCHANGED nonSimdVars

\* ------------------------------------------------------------------------
\* Locks: update(), the task's store, upload_tiles() and the callback of
\* render_fractal(); a step runs from one lock() to the next
\* ------------------------------------------------------------------------

LockTiles == 2
LockJobs == 2
MaxPasses == 2

LockTileIndex == 0 .. LockTiles - 1
MainThread == 0
JobSlots == 1 .. LockJobs
Threads == {MainThread} \cup JobSlots

\* tile.state: Arc<Mutex<TileState>>
TileLock(t) == <<"tile", t>>
\* event_loop_proxy: Arc<Mutex<EventLoopProxy>>, one per render_fractal()
ProxyLock(p) == <<"proxy", p>>

MainIdle == [op |-> "idle", i |-> 0, at |-> "none", changed |-> FALSE]
NoJob == [pc |-> "free", tile |-> 0, pass |-> 0]
LockState(kind, job) == [kind |-> kind, job |-> job]

NoLocks ==
    /\ main = MainIdle
    /\ held = [th \in Threads |-> {}]
    /\ jobs = [s \in JobSlots |-> NoJob]
    /\ lstate = [t \in LockTileIndex |-> LockState("Idle", 0)]
    /\ passes = 0

holder(l) == {th \in Threads : l \in held[th]}

\* Mutex::lock returns when no thread holds the mutex
lock(th, l) ==
    /\ holder(l) = {}
    /\ held' = [held EXCEPT ![th] = @ \cup {l}]

\* a guard that is never dropped
guard_kept(locks, l) == locks

\* the MutexGuard goes out of scope
guard_dropped(locks, l) == locks \ {l}

\* render_fractal() builds the proxy mutex and calls into update()
BeginUpdate ==
    /\ main.op = "idle"
    /\ passes < MaxPasses
    /\ passes' = passes + 1
    /\ \E changed \in BOOLEAN :
          main' = [op |-> "update", i |-> 0, at |-> "lock",
                   changed |-> changed]
    /\ UNCHANGED <<held, jobs, lstate>>
    /\ UNCHANGED nonLockVars

\* line 424: tile.state.lock().unwrap()
UpdateLock ==
    /\ main.op = "update"
    /\ main.at = "lock"
    /\ lock(MainThread, TileLock(main.i))
    /\ main' = [main EXCEPT !.at = "locked"]
    /\ UNCHANGED <<jobs, lstate, passes>>
    /\ UNCHANGED nonLockVars

NextTile(m) ==
    IF m.i + 1 = LockTiles THEN MainIdle
    ELSE [m EXCEPT !.i = @ + 1, !.at = "lock"]

\* JoinHandle::abort ends a task that waits at an await point
abort(js, s) ==
    IF s # 0 /\ js[s].pc = "spawned" THEN [js EXCEPT ![s] = NoJob] ELSE js

FreeSlots(js) == {s \in JobSlots : js[s].pc = "free"}

\* lines 425-488 under the guard of line 424, which drops when the
\* closure returns
UpdateTile ==
    /\ main.op = "update"
    /\ main.at = "locked"
    /\ LET t   == main.i
           st  == lstate[t]
           st1 == IF main.changed THEN LockState("Idle", 0) ELSE st
           js1 == IF main.changed /\ st.kind = "Computing"
                      THEN abort(jobs, st.job) ELSE jobs
       IN  \E visible \in IF FreeSlots(js1) = {} THEN {FALSE} ELSE BOOLEAN :
              IF ~visible
                  THEN /\ lstate' = [lstate EXCEPT ![t] =
                             IF st1.kind = "Computing"
                                 THEN LockState("Idle", 0) ELSE st1]
                       /\ jobs' = IF st1.kind = "Computing"
                                      THEN abort(js1, st1.job) ELSE js1
              ELSE IF st1.kind # "Idle"
                  THEN /\ lstate' = [lstate EXCEPT ![t] = st1]
                       /\ jobs' = js1
              ELSE LET s == CHOOSE f \in FreeSlots(js1) :
                                \A g \in FreeSlots(js1) : f <= g
                   IN  /\ lstate' = [lstate EXCEPT ![t] =
                                        LockState("Computing", s)]
                       /\ jobs' = [js1 EXCEPT ![s] =
                                      [pc |-> "spawned", tile |-> t,
                                       pass |-> passes]]
    /\ held' = [held EXCEPT ![MainThread] =
                   guard_dropped(@, TileLock(main.i))]
    /\ main' = NextTile(main)
    /\ UNCHANGED passes
    /\ UNCHANGED nonLockVars

\* upload_tiles() is entered from the render of a frame
BeginUpload ==
    /\ main.op = "idle"
    /\ main' = [op |-> "upload", i |-> 0, at |-> "lock", changed |-> FALSE]
    /\ UNCHANGED <<held, jobs, lstate, passes>>
    /\ UNCHANGED nonLockVars

\* line 569: tile.state.lock().unwrap()
UploadLock ==
    /\ main.op = "upload"
    /\ main.at = "lock"
    /\ lock(MainThread, TileLock(main.i))
    /\ main' = [main EXCEPT !.at = "locked"]
    /\ UNCHANGED <<jobs, lstate, passes>>
    /\ UNCHANGED nonLockVars

\* lines 570-579 under the guard, which drops at the end of the block of
\* lines 568-580; write_texture runs after it
UploadTile ==
    /\ main.op = "upload"
    /\ main.at = "locked"
    /\ lstate' = [lstate EXCEPT ![main.i] =
                     IF @.kind = "WaitForUpload"
                         THEN LockState("Ready", 0) ELSE @]
    /\ held' = [held EXCEPT ![MainThread] =
                   guard_dropped(@, TileLock(main.i))]
    /\ main' = NextTile(main)
    /\ UNCHANGED <<jobs, passes>>
    /\ UNCHANGED nonLockVars

\* line 463: the task is polled and passes the semaphore
JobStart(s) ==
    /\ jobs[s].pc = "spawned"
    /\ jobs' = [jobs EXCEPT ![s].pc = "computing"]
    /\ UNCHANGED <<main, held, lstate, passes>>
    /\ UNCHANGED nonLockVars

\* lines 464-474: the compute returns Err, .ok() is None, the task ends
JobCancelled(s) ==
    /\ jobs[s].pc = "computing"
    /\ jobs' = [jobs EXCEPT ![s] = NoJob]
    /\ UNCHANGED <<main, held, lstate, passes>>
    /\ UNCHANGED nonLockVars

\* lines 464-477: the compute returns Ok
JobComputed(s) ==
    /\ jobs[s].pc = "computing"
    /\ jobs' = [jobs EXCEPT ![s].pc = "lock_tile"]
    /\ UNCHANGED <<main, held, lstate, passes>>
    /\ UNCHANGED nonLockVars

\* lines 478-481: tile_state_clone.lock().unwrap(), then
\* *tile_state = WaitForUpload { buffer } under the guard
JobStore(s) ==
    /\ jobs[s].pc = "lock_tile"
    /\ lock(s, TileLock(jobs[s].tile))
    /\ lstate' = [lstate EXCEPT ![jobs[s].tile] =
                     LockState("WaitForUpload", 0)]
    /\ jobs' = [jobs EXCEPT ![s].pc = "lock_proxy"]
    /\ UNCHANGED <<main, passes>>
    /\ UNCHANGED nonLockVars

\* line 482 into tiled_fractal_app.rs line 252:
\* event_loop_proxy.lock().unwrap()
CallbackLock(s) ==
    /\ jobs[s].pc = "lock_proxy"
    /\ lock(s, ProxyLock(jobs[s].pass))
    /\ jobs' = [jobs EXCEPT ![s].pc = "send"]
    /\ UNCHANGED <<main, lstate, passes>>
    /\ UNCHANGED nonLockVars

\* lines 252-256: send_event(TileReady) returns and the guard of the proxy,
\* a temporary, drops with the statement; mandel_texture.rs line 483: the
\* block of `if let Some(buf)` ends, the guard of the tile drops and the
\* task is over
CallbackSend(s) ==
    /\ jobs[s].pc = "send"
    /\ held' = [held EXCEPT ![s] =
                   guard_dropped(guard_dropped(@, ProxyLock(jobs[s].pass)),
                                 TileLock(jobs[s].tile))]
    /\ jobs' = [jobs EXCEPT ![s] = NoJob]
    /\ UNCHANGED <<main, lstate, passes>>
    /\ UNCHANGED nonLockVars

\* ------------------------------------------------------------------------
\* Event loops: main.rs (ApplicationHandler for AppState) and app_base.rs
\* (the closure of start), with the error scopes of the device
\* ------------------------------------------------------------------------

EventResults == {"Continue", "Redraw", "Exit"}
\* get_current_texture: Ok, Err then Ok after configure, Err twice
SurfaceResults == {"Ok", "Reconfigured", "Failed"}

\* the error scope stack of the device: scopes open, whether the open one
\* caught a validation error, what the last pop returned, and the numbers
\* of scopes that were open around the renders so far
NewDevice ==
    [scopes |-> 0, error |-> FALSE, popped |-> "none", renders |-> {}]

\* main.rs lines 66-75
InitAppState ==
    [window |-> FALSE, is_redrawing |-> FALSE, is_resizing |-> FALSE,
     is_redraw_requested |-> TRUE, exit |-> FALSE, process |-> "running",
     device |-> NewDevice]

\* app_base.rs lines 127-135
InitBase ==
    [has_error_scope |-> FALSE, exit |-> FALSE, process |-> "running",
     device |-> NewDevice]

NoLoop ==
    /\ app_state = InitAppState
    /\ base = InitBase

\* Device::pop_error_scope
pop_error_scope(d) ==
    [d EXCEPT !.scopes = @ - 1, !.error = FALSE,
              !.popped = IF d.error THEN "error" ELSE "clean"]

\* Device::push_error_scope
push_error_scope(d) == [d EXCEPT !.scopes = @ + 1, !.error = FALSE]

\* App::render; with invalid = TRUE a command of the frame fails validation
\* and the open scope catches the error
render(d, invalid) ==
    [d EXCEPT !.renders = @ \cup {d.scopes},
              !.error = @ \/ (invalid /\ d.scopes > 0)]

panicked(a) == [a EXCEPT !.process = "panicked"]

\* the states S goes to under step, a dead process taking no step
Then(S, step(_)) ==
    UNION {IF a.process = "running" THEN step(a) ELSE {a} : a \in S}

\* main.rs lines 279-291
process_event_result(a, event_result) ==
    CASE event_result = "Continue" -> a
      [] event_result = "Redraw" -> [a EXCEPT !.is_redraw_requested = TRUE]
      [] event_result = "Exit" ->
            [a EXCEPT !.is_redraw_requested = FALSE, !.exit = TRUE]

\* the branch of is_redrawing without the pop
redraw_finished_keeps_scope(a) ==
    IF ~a.is_redrawing THEN {a}
    ELSE {process_event_result([a EXCEPT !.is_redrawing = FALSE], r) :
              r \in EventResults}

\* main.rs lines 241-254
redraw_finished(a) ==
    IF ~a.is_redrawing THEN {a}
    ELSE LET p == [a EXCEPT !.is_redrawing = FALSE,
                            !.device = pop_error_scope(@)]
         IN  IF p.device.popped = "error" THEN {panicked(p)}
             ELSE {process_event_result(p, r) : r \in EventResults}

\* main.rs lines 337-354
finish_resizing(a) ==
    IF ~a.is_resizing THEN {a}
    ELSE {process_event_result([a EXCEPT !.is_resizing = FALSE], r) :
              r \in EventResults}

\* a redraw that leaves the request standing
redraw_keeps_request(a) ==
    IF ~a.is_redraw_requested THEN {a}
    ELSE LET b == [a EXCEPT !.is_redrawing = TRUE]
         IN  {IF s = "Failed" THEN panicked(b)
              ELSE [b EXCEPT !.device = render(push_error_scope(@), v)] :
                  s \in SurfaceResults, v \in BOOLEAN}

\* main.rs lines 293-335
redraw_if_needed(a) ==
    IF ~a.is_redraw_requested THEN {a}
    ELSE LET b == [a EXCEPT !.is_redraw_requested = FALSE,
                            !.is_redrawing = TRUE]
         IN  {IF s = "Failed" THEN panicked(b)
              ELSE [b EXCEPT !.device = render(push_error_scope(@), v)] :
                  s \in SurfaceResults, v \in BOOLEAN}

\* main.rs lines 236-261
about_to_wait(a) ==
    Then(Then(redraw_finished(a), finish_resizing), redraw_if_needed)

AppRuns == app_state.process = "running" /\ app_state.window

\* main.rs lines 84-155: the window, the device and the app are made
Resumed ==
    /\ app_state.process = "running"
    /\ ~app_state.window
    /\ ~app_state.exit
    /\ app_state' = [app_state EXCEPT !.window = TRUE, !.device = NewDevice]
    /\ UNCHANGED base
    /\ UNCHANGED nonLoopVars

\* main.rs lines 157-168
UserEvent ==
    /\ AppRuns
    /\ \E r \in EventResults :
          app_state' = process_event_result(app_state, r)
    /\ UNCHANGED base
    /\ UNCHANGED nonLoopVars

\* main.rs lines 188-204 and 222
WindowResized ==
    /\ AppRuns
    /\ \E r \in EventResults :
          app_state' = process_event_result(app_state, r)
    /\ UNCHANGED base
    /\ UNCHANGED nonLoopVars

\* main.rs lines 206-210 and 222
RedrawRequested ==
    /\ AppRuns
    /\ app_state' = process_event_result(
                        [app_state EXCEPT !.is_redraw_requested = TRUE],
                        "Continue")
    /\ UNCHANGED base
    /\ UNCHANGED nonLoopVars

\* main.rs lines 212-222
WindowInput ==
    /\ AppRuns
    /\ \E r \in EventResults :
          app_state' = process_event_result(app_state, r)
    /\ UNCHANGED base
    /\ UNCHANGED nonLoopVars

\* main.rs lines 236-261
AboutToWait ==
    /\ AppRuns
    /\ app_state' \in about_to_wait(app_state)
    /\ UNCHANGED base
    /\ UNCHANGED nonLoopVars

\* main.rs lines 267-271, after event_loop.exit()
Exiting ==
    /\ AppRuns
    /\ app_state.exit
    /\ app_state' = [app_state EXCEPT !.window = FALSE]
    /\ UNCHANGED base
    /\ UNCHANGED nonLoopVars

BaseRuns == base.process = "running" /\ ~base.exit

\* app_base.rs lines 139-149
BaseAboutToWait ==
    /\ BaseRuns
    /\ base' =
          IF ~base.has_error_scope THEN base
          ELSE LET p == [base EXCEPT !.device = pop_error_scope(@)]
               IN  IF p.device.popped = "error" THEN panicked(p)
                   ELSE [p EXCEPT !.has_error_scope = FALSE]
    /\ UNCHANGED app_state
    /\ UNCHANGED nonLoopVars

\* app_base.rs lines 168-201 and 213-217
BaseRedrawRequested ==
    /\ BaseRuns
    /\ \E s \in SurfaceResults, v \in BOOLEAN :
          base' =
              IF s = "Failed" \/ base.has_error_scope THEN panicked(base)
              ELSE [base EXCEPT !.has_error_scope = TRUE,
                                !.device = render(push_error_scope(@), v)]
    /\ UNCHANGED app_state
    /\ UNCHANGED nonLoopVars

\* app_base.rs lines 153-166, 203-217: resize, input and user events
BaseEvent ==
    /\ BaseRuns
    /\ \E r \in EventResults :
          base' = [base EXCEPT !.exit = (r = "Exit")]
    /\ UNCHANGED app_state
    /\ UNCHANGED nonLoopVars

\* ------------------------------------------------------------------------
\* pixel(): the escape loop over the lanes of one SIMD block
\* ------------------------------------------------------------------------

\* the width of Pixel.r, u16 in the source, and the lanes of a block
PixelBits == 3
PixelLanes == 2

u16_MAX == 2 ^ PixelBits - 1
MaxIterations == u16_MAX + 2
Lanes == 1 .. PixelLanes

\* no escape within max_iterations
Never == 0

NoPixel ==
    px = [pc |-> "none", max_iterations |-> 0,
          escape_at |-> [l \in Lanes |-> Never],
          i |-> 0, cnt |-> [l \in Lanes |-> 0],
          escaped |-> [l \in Lanes |-> FALSE],
          out |-> [l \in Lanes |-> 0]]

\* lines 199-207; escape_at[l] stands for cx[l], cy[l]: the first iteration
\* whose z has zx*zx + zy*zy >= 5.0 in lane l
InitPixel ==
    \E n \in 0 .. MaxIterations :
        \E e \in [Lanes -> {Never} \cup 1 .. n] :
            px = [pc |-> "loop", max_iterations |-> n, escape_at |-> e,
                  i |-> 0, cnt |-> [l \in Lanes |-> 0],
                  escaped |-> [l \in Lanes |-> FALSE],
                  out |-> [l \in Lanes |-> 0]]

\* lines 209-218: one pass of `for _ in 0..max_iterations`
PixelIterate ==
    /\ px.pc = "loop"
    /\ px.i < px.max_iterations
    /\ LET escaped == [l \in Lanes |->
                          px.escaped[l] \/ px.escape_at[l] = px.i + 1]
       IN  px' = IF \A l \in Lanes : escaped[l]
                     THEN [px EXCEPT !.escaped = escaped, !.pc = "map"]
                 ELSE [px EXCEPT !.escaped = escaped,
                                 !.i = @ + 1,
                                 !.cnt = [l \in Lanes |->
                                            IF escaped[l] THEN @[l]
                                            ELSE @[l] + 1]]
    /\ UNCHANGED nonPixelVars

\* line 209: the range is used up
PixelLoopEnd ==
    /\ px.pc = "loop"
    /\ px.i = px.max_iterations
    /\ px' = [px EXCEPT !.pc = "map"]
    /\ UNCHANGED nonPixelVars

\* lines 221-227: iters to Pixel
to_pixel(iters, max_iterations) ==
    IF iters = max_iterations THEN 0
    ELSE (1 + (iters % u16_MAX)) % (u16_MAX + 1)

\* lines 220-228
PixelMap ==
    /\ px.pc = "map"
    /\ px' = [px EXCEPT !.pc = "done",
                        !.out = [l \in Lanes |->
                                    to_pixel(px.cnt[l], px.max_iterations)]]
    /\ UNCHANGED nonPixelVars

\* ------------------------------------------------------------------------
\* max_iterations: line 403 of update(), on cache rectangles of size
\* 2^-k by 2^-k
\* ------------------------------------------------------------------------

\* the width of u32, scaled; the largest k of a cache size
U32Bits == 16
MaxZoomExp == 545

u32_MAX == 2 ^ U32Bits - 1

\* 1.0 / x is inf from x = 2^-1025 down (f64::MAX < 2^1024), and a
\* length_squared below 2^-1074 is 0.0, with 1.0 / 0.0 = inf
F64_MAX_EXP == 1024

BASE_ITER == 300

NoIter ==
    iter = [pc |-> "none", k |-> 0, max_iterations |-> 0, overflow |-> FALSE]

InitIter ==
    \E k \in 0 .. MaxZoomExp :
        iter = [pc |-> "size", k |-> k, max_iterations |-> 0,
                overflow |-> FALSE]

\* f64 `as u32` of ln(1.0 / length_squared) * 50.0 for a size of 2^-k in x
\* and in y: length_squared = 2^(1 - 2k), ln(2^n) * 50 = n * 34.657359...;
\* the cast truncates, takes a negative value to 0 and inf to u32::MAX
ln_times_50_as_u32(k) ==
    LET n == 2 * k - 1
    IN  IF n <= 0 THEN 0
        ELSE IF n >= F64_MAX_EXP THEN u32_MAX
        ELSE n * 34 + (n * 657359) \div 1000000

\* u32 + u32: past u32::MAX the sum wraps, or panics where the build checks
\* overflow
u32_add(a, b) ==
    [value |-> (a + b) % (u32_MAX + 1), overflow |-> a + b > u32_MAX]

\* line 403
ComputeMaxIterations ==
    /\ iter.pc = "size"
    /\ LET sum == u32_add(BASE_ITER, ln_times_50_as_u32(iter.k))
       IN  iter' = [iter EXCEPT !.pc = "done",
                                !.max_iterations = sum.value,
                                !.overflow = sum.overflow]
    /\ UNCHANGED nonIterVars

\* ------------------------------------------------------------------------
\* mandelbrot_simd() with the pixel() call of every block
\* ------------------------------------------------------------------------

\* the max_iterations of the job
JobMaxIterations == 2

\* line 98: pixel(max_iterations, cx, cy) on the block at x, y
PixelCall ==
    /\ simd.pc = "write"
    /\ px.pc = "none"
    /\ \E e \in [Lanes -> {Never} \cup 1 .. JobMaxIterations] :
          px' = [pc |-> "loop", max_iterations |-> JobMaxIterations,
                 escape_at |-> e, i |-> 0, cnt |-> [l \in Lanes |-> 0],
                 escaped |-> [l \in Lanes |-> FALSE],
                 out |-> [l \in Lanes |-> 0]]
    /\ UNCHANGED nonPixelVars

\* a loop that stays on its block
block_repeated(s) == [s EXCEPT !.pc = "poll"]

\* lines 82-83 and 102-104: the block is copied into the buffer and the
\* loops over x and y advance
block_written(s) ==
    LET last == s.x + 1 = s.size.x \div SIMD_LANE_COUNT
    IN  [s EXCEPT !.pc = "poll",
                  !.written = @ + SIMD_LANE_COUNT,
                  !.x = IF last THEN 0 ELSE @ + 1,
                  !.y = IF last THEN @ + 1 ELSE @]

\* lines 98-104: pixel() has returned its block
BlockWrite ==
    /\ simd.pc = "write"
    /\ px.pc = "done"
    /\ simd' = block_written(simd)
    /\ px' = [px EXCEPT !.pc = "none"]
    /\ UNCHANGED <<texVars, poolVars, simd_cancel, lockVars, loopVars,
                   iterVars, appVars>>

\* ------------------------------------------------------------------------
\* TiledFractalApp (src/src/tiled_fractal_app.rs) under the event loop of
\* main.rs: the gestures, the TileReady events and the frames
\* ------------------------------------------------------------------------

\* tiles of the texture
AppTiles == 2

\* render_fractal() calls in one behaviour
MaxAppUpdates == 2

AppTileIndex == 0 .. AppTiles - 1

\* window widths the shell reports
AppWindowSizes == {64, 128}

InitialAppWindow == CHOOSE w \in AppWindowSizes : \A v \in AppWindowSizes : w <= v

\* TiledFractalApp::new, lines 52-105; surface_size is the size the shell
\* configured the surface with, cache_window the window_size the last
\* render_fractal() built its viewport from; jobs[t] counts the tasks of tile t
\* that have not ended, events the TileReady events sent and not yet
\* delivered, updates the calls of render_fractal()
NewFractalApp ==
    [window_size |-> InitialAppWindow, surface_size |-> InitialAppWindow,
     cache_window |-> InitialAppWindow,
     manipulate_state |-> "Idle", draft_offset |-> 0, draft_scale |-> 1,
     has_update_tiles |-> FALSE,
     tile_state |-> [t \in AppTileIndex |-> "Idle"],
     jobs |-> [t \in AppTileIndex |-> 0],
     events |-> 0, updates |-> 0]

NoApp == fractal_app = NewFractalApp

\* mandel_texture.rs lines 427-487 for one tile, the cache test and the
\* viewport test being given
schedule_tile(st, changed, visible) ==
    LET st1 == IF changed THEN "Idle" ELSE st
    IN  IF ~visible THEN (IF st1 = "Computing" THEN "Idle" ELSE st1)
        ELSE IF st1 # "Idle" THEN st1
        ELSE "Computing"

\* lines 237-259: the viewport is built from draft_offset and handed to the
\* scheduler with the callback that sends TileReady; the outcomes are taken
\* over every cache test and every set of tiles inside the viewport
render_fractal(a) ==
    {[a EXCEPT
        !.tile_state = [t \in AppTileIndex |->
                           schedule_tile(a.tile_state[t], changed,
                                         t \in visible)],
        !.jobs = [t \in AppTileIndex |->
                     IF t \in visible
                        /\ (changed \/ a.tile_state[t] = "Idle")
                         THEN a.jobs[t] + 1 ELSE a.jobs[t]],
        !.cache_window = a.window_size,
        !.updates = @ + 1] :
        changed \in BOOLEAN, visible \in SUBSET AppTileIndex}

\* line 191: zoom = 1.15^(scroll_delta / 5), here 2 per notch of the wheel
zoom(scroll_delta) == 2 ^ scroll_delta

\* lines 183-225 with the pointer at the centre of the window: the new
\* draft scale and offset, then render_fractal()
move_scale(a, mouse_delta, scroll_delta) ==
    LET new_draft_scale == a.draft_scale * zoom(scroll_delta)
    IN  render_fractal(
            [a EXCEPT !.draft_scale = new_draft_scale,
                      !.draft_offset = 2 * mouse_delta * new_draft_scale
                                          + a.draft_offset])

Outcome(a, result) == [app |-> a, result |-> result]

\* a pointer move that pans whatever the manipulation state is
mouse_move_always_pans(a, delta) ==
    {Outcome(b, "Redraw") : b \in move_scale(a, delta, 0)}

\* lines 117-126: Event::MouseMove
mouse_move(a, delta) ==
    IF a.manipulate_state = "Idle" THEN {Outcome(a, "Continue")}
    ELSE {Outcome(b, "Redraw") : b \in move_scale(a, delta, 0)}

\* lines 127-138: Event::MouseButton
mouse_button(a, btn, state) ==
    IF btn = "Left" /\ state = "Pressed"
        THEN Outcome([a EXCEPT !.manipulate_state = "Drag"], "Continue")
        ELSE Outcome([a EXCEPT !.manipulate_state = "Idle"], "Continue")

\* lines 172-179: TiledFractalApp::resize
resize(a, size) ==
    IF a.window_size = size THEN a
    ELSE [a EXCEPT !.window_size = size]

\* line 110: Event::Resized
resized(a, size) == {Outcome(a, "Redraw")}

\* a TileReady that asks for a frame and leaves has_update_tiles alone
tile_ready_without_flag(a) == Outcome(a, "Redraw")

\* lines 227-235: UserEvent::TileReady
update_user_event(a) ==
    Outcome([a EXCEPT !.has_update_tiles = TRUE], "Redraw")

\* mandel_texture.rs lines 566-580 over the tiles: update_tiles()
update_tiles(a) ==
    [a EXCEPT !.tile_state =
        [t \in AppTileIndex |->
            IF a.tile_state[t] = "WaitForUpload" THEN "Ready"
            ELSE a.tile_state[t]]]

\* lines 156-171: TiledFractalApp::render
app_render(a) ==
    IF a.has_update_tiles
        THEN update_tiles([a EXCEPT !.has_update_tiles = FALSE])
        ELSE a

MouseButtons == {"Left", "Right", "Middle"}
ElementStates == {"Pressed", "Released"}
MouseDeltas == {-1, 1}
ScrollDeltas == {1}

\* an event of the window reaches update() through window_event
\* (main.rs lines 212-222) and its result goes to process_event_result
Handled(o) ==
    /\ fractal_app' = o.app
    /\ app_state' = process_event_result(app_state, o.result)
    /\ UNCHANGED base
    /\ UNCHANGED <<texVars, poolVars, simdVars, lockVars, pixelVars,
                   iterVars>>

MouseButton ==
    /\ AppRuns
    /\ \E btn \in MouseButtons, state \in ElementStates :
          Handled(mouse_button(fractal_app, btn, state))

MouseMove ==
    /\ AppRuns
    /\ fractal_app.updates < MaxAppUpdates
    /\ \E delta \in MouseDeltas :
          \E o \in mouse_move(fractal_app, delta) : Handled(o)

\* lines 112-115: Event::MouseWheel
MouseWheel ==
    /\ AppRuns
    /\ fractal_app.updates < MaxAppUpdates
    /\ \E scroll \in ScrollDeltas :
          \E b \in move_scale(fractal_app, 0, scroll) :
              Handled(Outcome(b, "Redraw"))

\* the window is resized: main.rs lines 188-204 configure the surface and
\* hand Event::Resized to update(); app_base.rs lines 155-166 call resize()
\* before that
Resized ==
    /\ AppRuns
    /\ \E size \in AppWindowSizes \ {fractal_app.surface_size} :
          LET a == [fractal_app EXCEPT !.surface_size = size]
          IN  \E b \in {a, resize(a, size)} :
                  \E o \in resized(b, size) : Handled(o)

\* line 109: Event::WindowClose
WindowClose ==
    /\ AppRuns
    /\ Handled(Outcome(fractal_app, "Exit"))

\* main.rs lines 157-168: a TileReady event is delivered
TileReady ==
    /\ AppRuns
    /\ fractal_app.events > 0
    /\ Handled(update_user_event(
                   [fractal_app EXCEPT !.events = @ - 1]))

\* main.rs lines 236-261 and 293-335: the idle point; app.render runs when
\* redraw_if_needed got a surface texture
FrameIdle ==
    /\ AppRuns
    /\ \E b \in about_to_wait(app_state) :
          /\ app_state' = b
          /\ fractal_app' =
                IF b.is_redrawing /\ b.process = "running"
                    THEN app_render(fractal_app) ELSE fractal_app
    /\ UNCHANGED base
    /\ UNCHANGED <<texVars, poolVars, simdVars, lockVars, pixelVars,
                   iterVars>>

\* mandel_texture.rs lines 477-483: a task stores its buffer and, under
\* the same guard, the callback sends TileReady to the event loop
TileStored ==
    /\ AppRuns
    /\ \E t \in AppTileIndex :
          /\ fractal_app.jobs[t] > 0
          /\ fractal_app' = [fractal_app EXCEPT
                                !.tile_state[t] = "WaitForUpload",
                                !.jobs[t] = @ - 1,
                                !.events = @ + 1]
    /\ UNCHANGED nonAppVars

\* mandel_texture.rs lines 463-475: a task ends on its cancel signal or is
\* dropped by abort()
TileJobEnds ==
    /\ AppRuns
    /\ \E t \in AppTileIndex :
          /\ fractal_app.jobs[t] > 0
          /\ fractal_app.jobs[t] > 1 \/ fractal_app.tile_state[t] # "Computing"
          /\ fractal_app' = [fractal_app EXCEPT !.jobs[t] = @ - 1]
    /\ UNCHANGED nonAppVars

\* ------------------------------------------------------------------------
\* Specifications
\* ------------------------------------------------------------------------

\* the scheduler and texture cache, windows the texture can hold
Init ==
    /\ InitTexture(WorkerThreads)
    /\ NoPool
    /\ NoCompute
    /\ NoLocks
    /\ NoLoop
    /\ NoIter
    /\ NoApp
    /\ NoPixel

Next ==
    \/ Start
    \/ Pan
    \/ Zoom
    \/ Resize
    \/ TaskAcquire
    \/ TaskCancelled
    \/ TaskComputed
    \/ TaskStore
    \/ Render

Spec == Init /\ [][Next]_vars

\* the same with windows wider than the texture
InitWide ==
    /\ InitTexture(WideWorkerThreads)
    /\ NoPool
    /\ NoCompute
    /\ NoLocks
    /\ NoLoop
    /\ NoIter
    /\ NoApp
    /\ NoPixel

NextWide ==
    \/ Start
    \/ Pan
    \/ Zoom
    \/ Resize
    \/ ResizeWide
    \/ TaskAcquire
    \/ TaskCancelled
    \/ TaskComputed
    \/ TaskStore
    \/ Render

SpecWide == InitWide /\ [][NextWide]_vars

\* the scheduler with tasks that can panic; an aborted process takes no step
NextPanic ==
    /\ task_result # "process aborted"
    /\ \/ Next
       \/ TaskPanic

SpecPanic == Init /\ [][NextPanic]_vars

\* the buffer pool on its own: its owner, the owners of the handles and a
\* caller of taken_buffer_count
InitPool ==
    /\ InitTexture(WorkerThreads)
    /\ NoCompute
    /\ NoLocks
    /\ NoLoop
    /\ NoIter
    /\ NoApp
    /\ NoPixel
    /\ \E reserved_count \in 0 .. MaxReserve : new(reserved_count)

NextPool ==
    \/ Take
    \/ DropUpgrade
    \/ DropPush
    \/ DropRelease
    \/ PoolDrop
    \/ CountLoad
    \/ CountLen

SpecPool == InitPool /\ [][NextPool]_vars

\* the buffer pool shared with threads that take while the count is read
NextPoolShared ==
    \/ NextPool
    \/ TakeWhileCounting

SpecPoolShared == InitPool /\ [][NextPoolShared]_vars

\* the buffer pool with holders that write through the handles
NextPoolWrite ==
    \/ Take
    \/ HandleLock
    \/ HandleWrite
    \/ HandleUnlock
    \/ DropUpgrade
    \/ DropPush
    \/ DropRelease
    \/ PoolDrop

SpecPoolWrite == InitPool /\ [][NextPoolWrite]_vars

\* one call of the compute routine and the thread that cancels it
InitSimd ==
    /\ InitTexture(WorkerThreads)
    /\ NoPool
    /\ InitCompute
    /\ NoLocks
    /\ NoLoop
    /\ NoIter
    /\ NoApp
    /\ NoPixel

NextSimd ==
    \/ SimdPoll
    \/ SimdWrite
    \/ SimdReturn
    \/ CancelRaise

SpecSimd == InitSimd /\ [][NextSimd]_vars

\* the locks of the scheduler, the uploader, the tasks and the callback
InitLocks ==
    /\ InitTexture(WorkerThreads)
    /\ NoPool
    /\ NoCompute
    /\ NoLocks
    /\ NoLoop
    /\ NoIter
    /\ NoApp
    /\ NoPixel

NextLocks ==
    \/ BeginUpdate
    \/ UpdateLock
    \/ UpdateTile
    \/ BeginUpload
    \/ UploadLock
    \/ UploadTile
    \/ \E s \in JobSlots : JobStart(s)
    \/ \E s \in JobSlots : JobCancelled(s)
    \/ \E s \in JobSlots : JobComputed(s)
    \/ \E s \in JobSlots : JobStore(s)
    \/ \E s \in JobSlots : CallbackLock(s)
    \/ \E s \in JobSlots : CallbackSend(s)

SpecLocks == InitLocks /\ [][NextLocks]_vars

\* the event loops
InitLoop ==
    /\ InitTexture(WorkerThreads)
    /\ NoPool
    /\ NoCompute
    /\ NoLocks
    /\ NoLoop
    /\ NoIter
    /\ NoApp
    /\ NoPixel

NextLoop ==
    \/ Resumed
    \/ UserEvent
    \/ WindowResized
    \/ RedrawRequested
    \/ WindowInput
    \/ AboutToWait
    \/ Exiting
    \/ BaseAboutToWait
    \/ BaseRedrawRequested
    \/ BaseEvent

SpecLoop == InitLoop /\ [][NextLoop]_vars

\* pixel() on every block of escape iterations
InitPixelSpec ==
    /\ InitTexture(WorkerThreads)
    /\ NoPool
    /\ NoCompute
    /\ NoLocks
    /\ NoLoop
    /\ NoIter
    /\ NoApp
    /\ InitPixel

NextPixel ==
    \/ PixelIterate
    \/ PixelLoopEnd
    \/ PixelMap

SpecPixel == InitPixelSpec /\ [][NextPixel]_vars

\* a compute job: the loops of mandelbrot_simd() around those of pixel()
InitJob == InitSimd

JobStep ==
    \/ SimdPoll
    \/ PixelCall
    \/ PixelIterate
    \/ PixelLoopEnd
    \/ PixelMap
    \/ BlockWrite
    \/ SimdReturn

NextJob ==
    \/ SimdPoll
    \/ PixelCall
    \/ PixelIterate
    \/ PixelLoopEnd
    \/ PixelMap
    \/ BlockWrite
    \/ SimdReturn
    \/ CancelRaise

SpecJob == InitJob /\ [][NextJob]_vars

\* the app under the event loop of main.rs
InitApp ==
    /\ InitTexture(WorkerThreads)
    /\ NoPool
    /\ NoCompute
    /\ NoLocks
    /\ NoLoop
    /\ NoIter
    /\ NoPixel
    /\ NoApp

NextApp ==
    \/ Resumed
    \/ MouseButton
    \/ MouseMove
    \/ MouseWheel
    \/ WindowClose
    \/ TileReady
    \/ FrameIdle
    \/ TileStored
    \/ TileJobEnds
    \/ Exiting

SpecApp == InitApp /\ [][NextApp]_vars

\* the same with a window that is resized
NextAppResize ==
    \/ NextApp
    \/ Resized

SpecAppResize == InitApp /\ [][NextAppResize]_vars

\* the event loop delivers every event sent to it, reaches its idle point
\* after each batch of events and ends once exit() was called
SpecAppFair ==
    /\ SpecApp
    /\ WF_vars(TileReady)
    /\ WF_vars(FrameIdle)
    /\ WF_vars(Exiting)

\* max_iterations on every cache size
InitIterSpec ==
    /\ InitTexture(WorkerThreads)
    /\ NoPool
    /\ NoCompute
    /\ NoLocks
    /\ NoLoop
    /\ NoPixel
    /\ NoApp
    /\ InitIter

NextIter == ComputeMaxIterations

SpecIter == InitIterSpec /\ [][NextIter]_vars

\* ------------------------------------------------------------------------
\* Properties of the cache rectangle
\* ------------------------------------------------------------------------

\* the cache rectangle covers the viewport and has the size
\* viewport.size * TEXTURE_SIZE / window_size on both axes
CacheCoversViewport ==
    /\ contains(fractal_rect, frame_rect)
    /\ fractal_rect.size.x * window_size.x = frame_rect.size.x * TEXTURE_SIZE
    /\ fractal_rect.size.y * window_size.y = frame_rect.size.y * TEXTURE_SIZE

\* C1: after every update(), whatever pans, zooms and resizes came before,
\* the cache rectangle contains the viewport and its size is
\* viewport.size * TEXTURE_SIZE / window_size on both axes
C1_CacheCoversViewportAfterUpdate ==
    upd.no > 0 => CacheCoversViewport

\* ------------------------------------------------------------------------
\* Properties of cancellation
\* ------------------------------------------------------------------------

Cancelled(j) == cancel_token[j.tile] # j.cancel_token_value

\* C2: when the last update() recorded a cache transition, every job spawned
\* by an earlier update() has its cancel signal raised and its abort
\* requested, and no tile is Computing or WaitForUpload with a job or a
\* buffer of an earlier update()
C2_TransitionCancelsEveryEarlierJob ==
    upd.frame_changed =>
        /\ \A j \in tasks : j.upd < upd.no => Cancelled(j) /\ j.aborted
        /\ \A t \in TileIndex :
              /\ tile_state[t].kind = "Computing"
                    => tile_state[t].task_handle[2] = upd.no
              /\ tile_state[t].kind = "WaitForUpload"
                    => tile_state[t].buffer.upd = upd.no

\* the step in which the compute of task j returns Err("Cancelled")
ReturnsCancelled(j) ==
    /\ j.pc = "running"
    /\ \A k \in tasks' : Handle(k) # Handle(j)

\* the steps that put a tile into WaitForUpload are the stores of a task
\* whose compute returned Ok
OnlyOkStores ==
    \A t \in TileIndex :
        (tile_state'[t].kind = "WaitForUpload" /\ tile_state'[t] # tile_state[t])
            => \E j \in tasks : /\ j.tile = t
                                /\ j.pc = "ok"
                                /\ j \notin tasks'
                                /\ tile_state'[t].buffer = ComputedBuffer(j)

\* C3 as amended: a worker whose compute returns Cancelled changes neither
\* its tile's state nor the redraw request (the tile stays as the main
\* thread left it, Idle or rescheduled), and only a task whose compute
\* returned Ok moves a tile to WaitForUpload
C3_CancelledWorkerLeavesTile ==
    [][/\ \A j \in tasks :
            ReturnsCancelled(j)
                => /\ tile_state' = tile_state
                   /\ redraw_requested' = redraw_requested
       /\ OnlyOkStores]_vars

\* a worker's compute returned Cancelled
C3_Witness == task_result = "Cancelled"

\* C3 as stated: the tile of a worker whose compute returns Cancelled is
\* left Idle
C3_CancelledWorkerLeavesTileIdle ==
    [][/\ \A j \in tasks :
            ReturnsCancelled(j)
                => /\ tile_state' = tile_state
                   /\ redraw_requested' = redraw_requested
                   /\ tile_state'[j.tile] = Idle
       /\ OnlyOkStores]_vars

\* C4: the jobs inside the compute routine are at most the permits of the
\* semaphore, and each of them holds a permit
C4_ComputeHoldsPermit ==
    /\ Cardinality(Active(tasks)) <= cpu_core_count * 2
    /\ \A j \in Active(tasks) : j.permit

\* ------------------------------------------------------------------------
\* Properties of the tile state machine
\* ------------------------------------------------------------------------

\* C5: a tile in Computing holds the handle of a task that exists and whose
\* cancel token is not raised, and a tile in WaitForUpload holds a buffer
\* that is not empty (the uploader takes the buffer and leaves
\* WaitForUpload in the same critical section)
C5_StatePayloadsValid ==
    \A t \in TileIndex :
        /\ tile_state[t].kind = "Computing"
              => \E j \in tasks : /\ Handle(j) = tile_state[t].task_handle
                                  /\ j.tile = t
                                  /\ ~Cancelled(j)
        /\ tile_state[t].kind = "WaitForUpload"
              => tile_state[t].buffer.len > 0

\* a render() has taken a buffer while one tile is Computing and another
\* tile holds a buffer that waits for its upload
C5_Witness ==
    /\ last_op = "render"
    /\ frame.uploads # {}
    /\ \E t \in TileIndex : tile_state[t].kind = "Computing"
    /\ \E t \in TileIndex : tile_state[t].kind = "WaitForUpload"

\* the jobs of tile t that are not cancelled
Uncancelled(ts, token, t) ==
    {j \in ts : j.tile = t /\ token[t] = j.cancel_token_value}

\* C6: update() schedules a job for a tile only when the tile holds no
\* job and no buffer, or when the same update() cancels what it holds; the
\* earlier jobs of the tile are then cancelled, and at any time a tile has
\* at most one job that is not cancelled
C6_OneUncancelledJobPerTile ==
    [][\A t \in TileIndex :
         /\ Cardinality(Uncancelled(tasks', cancel_token', t)) <= 1
         /\ \A j \in tasks' \ tasks :
               (j.tile = t /\ j.pc = "spawned")
                    => /\ tile_state[t].kind \in {"Computing", "WaitForUpload"}
                            => upd'.frame_changed
                       /\ Uncancelled(tasks', cancel_token', t) = {j}
                       /\ tile_state'[t] = Computing(Handle(j))]_vars

\* a tile has a cancelled job and the job that replaced it at the same time
C6_Witness ==
    \E j, k \in tasks :
        /\ j.tile = k.tile
        /\ j.upd < k.upd
        /\ Cancelled(j)
        /\ ~Cancelled(k)

\* C7: an update() that repeats the viewport of the update() before it,
\* with no render() between the two, spawns no job, cancels no job and
\* records no cache transition
C7_RepeatedUpdateDoesNothing ==
    [][(upd'.no = upd.no + 1 /\ upd'.same)
          => /\ tasks' = tasks
             /\ cancel_token' = cancel_token
             /\ tile_state' = tile_state
             /\ ~upd'.frame_changed
             /\ frame_changed' = frame_changed
             /\ fractal_rect' = fractal_rect]_vars

\* C8: the tiles a render() uploaded were written to the texture that is
\* the front one when render() returns, and hold the uploaded data: the
\* blit and its swap came first
C8_UploadsLandInFrontTexture ==
    last_op = "render"
        => \A t \in frame.uploads :
              /\ frame.front = texture1.id
              /\ texture1.data[t].src = "upload"

\* a render() both blitted and uploaded
C8_Witness ==
    /\ last_op = "render"
    /\ frame.blitted
    /\ frame.uploads # {}

\* ------------------------------------------------------------------------
\* Properties of the buffer pool
\* ------------------------------------------------------------------------

Max(a, b) == IF a >= b THEN a ELSE b

HandlesAt(pcs) == {h \in HandleIds : handles[h].pc \in pcs}

\* the count taken_buffer_count returns when nothing runs beside it
outstanding == taken_buffer_count(inner.total_allocated, Len(inner.available))

\* C9: after n take() calls with no drop before or between them, take() has
\* allocated max(0, n - reserve) buffers and taken_buffer_count is n; once
\* all n handles are dropped, the pool still alive, taken_buffer_count is 0
\* and max(reserve, n) buffers are available
C9_TakesThenDrops ==
    LET r == pool_hist.reserved_count
    IN  /\ (pool_alive /\ Dropping(handles) = {})
              => LET n == Cardinality(HandlesAt({"live"}))
                 IN  /\ pool_hist.fresh = Max(0, n - r)
                     /\ outstanding = {Returned(n)}
        /\ (pool_alive /\ ~pool_hist.interleaved
                /\ HandlesAt({"live", "upgraded", "pushed"}) = {})
              => LET n == Cardinality(HandlesAt({"dropped"}))
                 IN  /\ outstanding = {Returned(0)}
                     /\ Len(inner.available) = Max(r, n)

\* every handle was taken from a pool of reserve 1 and then dropped
C9_Witness ==
    /\ pool_alive
    /\ ~pool_hist.interleaved
    /\ pool_hist.reserved_count = 1
    /\ HandlesAt({"dropped"}) = HandleIds

\* the storages of the available list and of the handles are all different
StorageOwnedOnce ==
    /\ \A i, k \in 1 .. Len(inner.available) :
            i # k => inner.available[i] # inner.available[k]
    /\ \A h \in HandlesAt({"live", "upgraded"}) :
            /\ Occurrences(inner.available, handles[h].data) = 0
            /\ heap[handles[h].data] = "allocated"
            /\ \A g \in HandlesAt({"live", "upgraded"}) :
                    g # h => handles[g].data # handles[h].data

\* C10: the drop of a handle pushes its storage to the available list once
\* when the pool is alive, and frees it and leaves the pool as it is when
\* the pool is gone; no storage is twice in the available list, nor in the
\* list and in a live handle
C10_DropReturnsStorageOnce ==
    [][/\ \A h \in HandleIds :
            /\ (handles[h].pc = "upgraded" /\ handles'[h].pc = "pushed")
                  => /\ Len(inner'.available) = Len(inner.available) + 1
                     /\ Occurrences(inner'.available, handles[h].data) = 1
                     /\ handles'[h].data = NoStorage
            /\ (handles[h].pc = "live" /\ handles'[h].pc = "dropped")
                  => /\ inner' = inner
                     /\ heap'[handles[h].data] = "freed"
       /\ StorageOwnedOnce']_vars

\* the pool was dropped while one handle was returning its storage, and
\* another handle was dropped
C10_Witness ==
    /\ ~pool_alive
    /\ HandlesAt({"pushed"}) # {}
    /\ HandlesAt({"dropped"}) # {}

C12_OneWriterPerBuffer ==
    /\ \A h \in HandleIds : data_lock[h] <= 1
    /\ \A h, g \in HandlesAt({"live", "upgraded"}) :
            h # g => handles[h].data # handles[g].data
    /\ \A b \in BufferIds :
            Cardinality({h \in HandleIds :
                            handles[h].data = b /\ data_lock[h] > 0}) <= 1

\* two handles are locked at the same time, one on a recycled storage
C12_Witness ==
    \E h, g \in HandleIds :
        /\ h # g
        /\ data_lock[h] = 1
        /\ data_lock[g] = 1
        /\ storage[handles[h].data].bytes = <<"written", h>>
        /\ storage[handles[g].data].bytes[1] = "written"
        /\ pool_hist.interleaved

\* ------------------------------------------------------------------------
\* Properties of the compute routine
\* ------------------------------------------------------------------------

\* pixels written since the token was raised
WrittenSinceRaise == simd.written - simd_cancel.raised_at

\* pixels written when the routine polls for the last time
LastPollAt(size) ==
    LET blocks == size.x \div SIMD_LANE_COUNT
        x == CHOOSE k \in 0 .. (blocks - 1) :
                 /\ polls(k)
                 /\ \A l \in (k + 1) .. (blocks - 1) : ~polls(l)
    IN  size.x * (size.y - 1) + x * SIMD_LANE_COUNT

\* C13 as amended: once the token is raised the routine writes at most 32
\* further pixels and then returns: Cancelled when a poll was still ahead,
\* Ok when the token was raised after the last poll; it returns Cancelled
\* only for a raised token
C13_CancelStopsWithin32Pixels ==
    /\ simd_cancel.raised_at >= 0 => WrittenSinceRaise <= 32
    /\ simd.result = "Cancelled" => simd_cancel.raised_at >= 0
    /\ (simd_cancel.raised_at >= 0 /\ simd.pc = "done")
          => \/ simd.result = "Cancelled"
             \/ /\ simd.result = "Ok"
                /\ simd_cancel.raised_at >= LastPollAt(simd.size)

\* a call returned Cancelled after it wrote 32 pixels past the raise
C13_Witness ==
    /\ simd.pc = "done"
    /\ simd.result = "Cancelled"
    /\ WrittenSinceRaise = 32

\* C13 as stated: once the token is raised the routine writes at most 32
\* further pixels and returns Cancelled
C13_RaisedTokenReturnsCancelled ==
    /\ simd_cancel.raised_at >= 0 => WrittenSinceRaise <= 32
    /\ (simd_cancel.raised_at >= 0 /\ simd.pc = "done")
          => simd.result = "Cancelled"

\* ------------------------------------------------------------------------
\* Properties of update()
\* ------------------------------------------------------------------------

\* C14: after the first update(), before a worker has stored a result or a
\* frame was rendered, a tile is Computing when its fractal rectangle
\* intersects the viewport and Idle otherwise
C14_FirstUpdateSchedulesVisibleTiles ==
    (upd.no = 1 /\ last_op = "update" /\ task_result = "none")
        => \A t \in TileIndex :
              IF intersects(frame_rect,
                            Tile_fractal_rect(t, TEXTURE_SIZE, fractal_rect))
                  THEN tile_state[t].kind = "Computing"
                  ELSE tile_state[t] = Idle

\* the first update() is done and a job of it is inside the compute
C14_Witness ==
    /\ upd.no = 1
    /\ last_op = "update"
    /\ task_result = "none"
    /\ \E j \in tasks : j.pc = "running"
    /\ \E t \in TileIndex : tile_state[t] = Idle

\* the step of an update() call
UpdateStep == upd'.no = upd.no + 1

\* C15: when an update() that changes the cache follows one that changed
\* it, every job the first one spawned has its cancel signal raised and its
\* abort requested, and the rectangles of the blit that follows are prev =
\* the cache of the first, cache = the cache of the second
C15_SecondTransitionCancelsFirst ==
    [][(UpdateStep /\ upd.frame_changed /\ upd'.frame_changed)
          => /\ \A j \in tasks' :
                    j.upd = upd.no
                        => cancel_token'[j.tile] # j.cancel_token_value
                           /\ j.aborted
             /\ fractal_rect_prev' = fractal_rect
             /\ fractal_rect' = new_fractal_rect(frame_rect', window_size')
      ]_vars

\* the step of an update() call made by a zoom: the viewport changes its
\* size in a window that keeps its size
ZoomStep ==
    /\ UpdateStep
    /\ upd.no > 0
    /\ window_size' = window_size
    /\ frame_rect'.size # frame_rect.size

\* C16 as amended: update() records a cache transition exactly when the
\* cache does not contain the new viewport or the size of the viewport
\* changed; a zoom changes the size, so every zoom records a transition and
\* raises the cancel token of every tile, covered or not
C16_TransitionOnOffFrameOrScale ==
    [][/\ UpdateStep
            => (upd'.frame_changed
                    <=> \/ ~contains(fractal_rect, frame_rect')
                        \/ length_squared(frame_rect'.size) # fractal_scale)
       /\ ZoomStep
            => /\ upd'.frame_changed
               /\ \A t \in TileIndex : cancel_token'[t] > cancel_token[t]
      ]_vars

\* a transition was recorded for a viewport of another size that the
\* cache of before contained
C16_Witness ==
    /\ upd.no > 1
    /\ last_op = "update"
    /\ upd.frame_changed
    /\ fractal_rect_prev.size # fractal_rect.size
    /\ fractal_rect_prev.size.x > 0
    /\ contains(fractal_rect_prev, frame_rect)

\* C16 as stated: a zoom records a cache transition only if the cache does
\* not contain the new viewport; a zoom whose viewport is covered records no
\* transition and cancels no job
C16_ZoomTransitionOnlyOffFrame ==
    [][ZoomStep
          => /\ upd'.frame_changed => ~contains(fractal_rect, frame_rect')
             /\ contains(fractal_rect, frame_rect')
                    => /\ ~upd'.frame_changed
                       /\ cancel_token' = cancel_token
      ]_vars

\* ------------------------------------------------------------------------
\* Properties of the locks
\* ------------------------------------------------------------------------

TileLocksHeld(th) == {l \in held[th] : l[1] = "tile"}

\* the lock thread th is inside lock() for
Wanted(th) ==
    IF th = MainThread
        THEN IF main.at = "lock" THEN {TileLock(main.i)} ELSE {}
    ELSE IF jobs[th].pc = "lock_tile" THEN {TileLock(jobs[th].tile)}
    ELSE IF jobs[th].pc = "lock_proxy" THEN {ProxyLock(jobs[th].pass)}
    ELSE {}

Blocked(th) == \E l \in Wanted(th) : holder(l) # {}

\* every thread of S waits for a lock that a thread of S holds
Deadlocked(S) ==
    /\ S # {}
    /\ \A th \in S :
          /\ Blocked(th)
          /\ \A l \in Wanted(th) : holder(l) \subseteq S

\* C17: no thread holds two tile locks, and no set of threads waits for
\* locks that only its own members can release
C17_OneTileLockNoDeadlock ==
    /\ \A th \in Threads : Cardinality(TileLocksHeld(th)) <= 1
    /\ \A S \in SUBSET Threads : ~Deadlocked(S)

\* a task holds its tile lock and the proxy lock inside the callback while
\* the scheduler waits for that tile and another task waits for the proxy
C17_Witness ==
    \E s \in JobSlots :
        /\ jobs[s].pc = "send"
        /\ held[s] = {TileLock(jobs[s].tile), ProxyLock(jobs[s].pass)}
        /\ main.op = "update"
        /\ Wanted(MainThread) = {TileLock(jobs[s].tile)}
        /\ \E r \in JobSlots :
              /\ r # s
              /\ Wanted(r) = {ProxyLock(jobs[s].pass)}

\* ------------------------------------------------------------------------
\* Properties of failures
\* ------------------------------------------------------------------------

\* C18: a panic inside a worker job ends the process: no step of the
\* program starts in a state where the panic of a job was absorbed
C18_WorkerPanicIsFatal ==
    [][task_result # "Panic"]_vars

\* the error scopes of a device are handled one frame at a time: at most
\* one is open, each render ran inside exactly one, and a pop that returned
\* an error ended the process
OneScope(d, process) ==
    /\ d.scopes \in {0, 1}
    /\ d.renders \subseteq {1}
    /\ d.popped = "error" => process = "panicked"

\* C19: at most one validation-error scope is open at any time, a scope is
\* open exactly from the push before a frame's render to the pop at the next
\* idle point, and a popped scope that holds an error ends the process
C19_OneErrorScopePerFrame ==
    /\ OneScope(app_state.device, app_state.process)
    /\ OneScope(base.device, base.process)
    /\ app_state.process = "running"
          => (app_state.device.scopes = 1 <=> app_state.is_redrawing)
    /\ base.process = "running"
          => (base.device.scopes = 1 <=> base.has_error_scope)

\* a frame was rendered inside a scope that a pop closed without an error,
\* the next frame's scope is open and holds an error, and a redraw is
\* requested again before the idle point
C19_Witness ==
    /\ app_state.process = "running"
    /\ app_state.device.popped = "clean"
    /\ app_state.device.scopes = 1
    /\ app_state.device.error
    /\ app_state.device.renders = {1}
    /\ app_state.is_redraw_requested
    /\ base.process = "panicked"
    /\ base.device.popped = "error"

\* ------------------------------------------------------------------------
\* Properties of pixel()
\* ------------------------------------------------------------------------

Min(a, b) == IF a <= b THEN a ELSE b

\* C20: a pixel is 0 when its point did not escape within max_iterations,
\* and otherwise the 1-based iteration of its escape, clamped to u16::MAX
C20_PixelIsClampedEscapeIteration ==
    px.pc = "done"
        => \A l \in Lanes :
              px.out[l] = IF px.escape_at[l] = Never THEN 0
                          ELSE Min(px.escape_at[l], u16_MAX)

\* ------------------------------------------------------------------------
\* Properties of max_iterations
\* ------------------------------------------------------------------------

MAX_ITER == 4500

\* C21: the max_iterations of update() is at most MAX_ITER, and the
\* addition that gives it neither overflows nor wraps
C21_MaxIterationsWithinCap ==
    iter.pc = "done"
        => /\ iter.max_iterations <= MAX_ITER
           /\ ~iter.overflow

\* ------------------------------------------------------------------------
\* Properties of the compute job
\* ------------------------------------------------------------------------

Blocks(s) == (s.size.x \div SIMD_LANE_COUNT) * s.size.y

\* the steps one block takes at most: the poll, the call of pixel(),
\* max_iterations passes, the end of the loop, the map, the copy
BlockSteps(n) == n + 5

\* the steps the block under way has left
BlockStepsLeft ==
    CASE px.pc = "none" -> JobMaxIterations + 4
      [] px.pc = "loop" -> (px.max_iterations - px.i) + 3
      [] px.pc = "map" -> 2
      [] px.pc = "done" -> 1

\* the steps the job has left at most
StepsLeft ==
    LET todo == Blocks(simd) - simd.written \div SIMD_LANE_COUNT
    IN  CASE simd.pc = "done" -> 0
          [] simd.pc = "poll" -> todo * BlockSteps(JobMaxIterations) + 1
          [] simd.pc = "write" ->
                (todo - 1) * BlockSteps(JobMaxIterations) + 1 + BlockStepsLeft

\* C22: a job that has not returned can always take a step, every step
\* brings it nearer to its return by the bound of max_iterations passes
\* per block over the blocks of the tile, and it returns Ok or Cancelled
C22_ComputeJobTerminates ==
    [][/\ simd.pc # "done" => ENABLED JobStep
       /\ <<simd, px>>' # <<simd, px>>
            => /\ StepsLeft' < StepsLeft
               /\ StepsLeft' >= 0
               /\ px'.i <= px'.max_iterations
       /\ simd'.pc = "done" => simd'.result \in {"Ok", "Cancelled"}
      ]_vars

\* the job has returned Ok after the last block ran max_iterations passes
C22_Witness ==
    /\ simd.pc = "done"
    /\ simd.result = "Ok"
    /\ simd.written = Blocks(simd) * SIMD_LANE_COUNT
    /\ simd_cancel.raised_at # -1

\* ------------------------------------------------------------------------
\* Properties of the tile grid
\* ------------------------------------------------------------------------

Area(r) == r.size.x * r.size.y

\* the rectangles share a texel
Overlap(a, b) ==
    /\ a.pos.x < b.pos.x + b.size.x
    /\ b.pos.x < a.pos.x + a.size.x
    /\ a.pos.y < b.pos.y + b.size.y
    /\ b.pos.y < a.pos.y + a.size.y

\* r lies in the texture
InTexture(r) ==
    /\ 0 <= r.pos.x
    /\ r.pos.x + r.size.x <= TEXTURE_SIZE
    /\ 0 <= r.pos.y
    /\ r.pos.y + r.size.y <= TEXTURE_SIZE

RECURSIVE AreaSum(_)
AreaSum(ts) ==
    IF ts = {} THEN 0
    ELSE LET t == CHOOSE u \in ts : TRUE
         IN  Area(tex_rect(t)) + AreaSum(ts \ {t})

RenderStep == last_op' = "render" /\ tasks' = tasks

Waiting == {t \in TileIndex : tile_state[t].kind = "WaitForUpload"}

\* C24 as amended: render() uploads exactly the tiles that are in
\* WaitForUpload: each is left Ready, without its buffer, and its data is in
\* the front texture at its tex_rect; the state of the other tiles is not
\* touched, and no tile is in WaitForUpload when render() returns, so no
\* buffer is uploaded again
C24_UploadLeavesTileReady ==
    [][RenderStep
          => /\ frame'.uploads = Waiting
             /\ \A t \in Waiting :
                   /\ tile_state'[t] = Ready
                   /\ texture1'.data[t] = Uploaded(tile_state[t].buffer)
             /\ \A t \in TileIndex \ Waiting :
                   tile_state'[t] = tile_state[t]
      ]_vars

\* a render() has uploaded a tile, which is Ready
C24_Witness ==
    /\ last_op = "render"
    /\ \E t \in frame.uploads : tile_state[t] = Ready

\* C24 as stated: the upload step leaves every tile it uploads Idle
C24_UploadLeavesTileIdle ==
    [][RenderStep
          => \A t \in Waiting :
                /\ t \in frame'.uploads
                /\ tile_state'[t] = Idle
      ]_vars


\* the tiles whose fractal rect does not intersect the viewport once the
\* step is taken
Hidden ==
    {t \in TileIndex :
        ~intersects(frame_rect',
                    Tile_fractal_rect(t, TEXTURE_SIZE, fractal_rect'))}

\* C25 as amended: after update(), a tile outside the viewport is Idle with
\* its cancel signal raised and its handle aborted when update() found it
\* Computing or recorded a cache transition; when there is no transition, a
\* tile outside the viewport that is WaitForUpload or Ready keeps its state
\* and its cancel token
C25_HiddenComputingTileIsCancelled ==
    [][UpdateStep
          => \A t \in Hidden :
                IF upd'.frame_changed \/ tile_state[t].kind = "Computing"
                    THEN /\ tile_state'[t] = Idle
                         /\ cancel_token'[t] > cancel_token[t]
                         /\ \A j \in tasks' :
                                (tile_state[t].kind = "Computing"
                                   /\ Handle(j) = tile_state[t].task_handle)
                                    => j.aborted
                    ELSE /\ tile_state'[t] = tile_state[t]
                         /\ cancel_token'[t] = cancel_token[t]
      ]_vars

\* an update() without a cache transition has left a tile outside the
\* viewport WaitForUpload or Ready
C25_Witness ==
    /\ last_op = "update"
    /\ ~upd.frame_changed
    /\ \E t \in TileIndex :
          /\ ~intersects(frame_rect,
                         Tile_fractal_rect(t, TEXTURE_SIZE, fractal_rect))
          /\ tile_state[t].kind \in {"WaitForUpload", "Ready"}

\* C25 as stated: after update() every tile outside the viewport is Idle,
\* whatever state it was in before
C25_HiddenTileIsIdle ==
    [][UpdateStep => \A t \in Hidden : tile_state'[t] = Idle]_vars


\* the update() being taken finds the viewport inside the cache and at the
\* scale of the cache
SameFrameStep ==
    /\ UpdateStep
    /\ contains(fractal_rect, frame_rect')
    /\ length_squared(frame_rect'.size) = fractal_scale

\* C26: an update() whose viewport is inside the cache and at its scale
\* records no transition: the cache rect, the previous cache rect, the scale
\* and the pending-blit flag are unchanged, and for every tile that still
\* intersects the viewport the cancel token is unchanged and no job is
\* aborted or dropped
C26_SameFrameUpdateKeepsCache ==
    [][SameFrameStep
          => /\ ~upd'.frame_changed
             /\ fractal_rect' = fractal_rect
             /\ fractal_rect_prev' = fractal_rect_prev
             /\ fractal_scale' = fractal_scale
             /\ frame_changed' = frame_changed
             /\ \A t \in TileIndex \ Hidden :
                    /\ cancel_token'[t] = cancel_token[t]
                    /\ \A j \in tasks : j.tile = t => j \in tasks'
                    /\ tile_state[t].kind = "Computing"
                          => tile_state'[t] = tile_state[t]
      ]_vars

\* an update() without a transition has run while a job of a tile inside
\* the viewport was in flight and a blit was pending
C26_Witness ==
    /\ last_op = "update"
    /\ upd.no > 1
    /\ ~upd.frame_changed
    /\ ~upd.same
    /\ frame_changed
    /\ \E j \in tasks :
          /\ j.upd < upd.no
          /\ ~j.aborted
          /\ intersects(frame_rect,
                        Tile_fractal_rect(j.tile, TEXTURE_SIZE, fractal_rect))


\* C27: render() blits exactly when a cache transition is pending; a blit
\* swaps the front and the back texture once, a render() without a pending
\* transition swaps nothing; after every render() the pending-blit flag is
\* clear and the previous cache rect equals the cache rect
C27_RenderBlitsIffTransitionPending ==
    [][RenderStep
          => /\ frame'.blitted <=> frame_changed
             /\ IF frame_changed
                    THEN /\ texture1'.id = texture2.id
                         /\ texture2'.id = texture1.id
                    ELSE /\ texture1'.id = texture1.id
                         /\ texture2'.id = texture2.id
             /\ texture1'.id # texture2'.id
             /\ ~frame_changed'
             /\ fractal_rect_prev' = fractal_rect'
      ]_vars

\* a render() has blitted: the texture created second is now the front one
C27_Witness ==
    /\ last_op = "render"
    /\ frame.blitted
    /\ texture1.id = 2
    /\ ~frame_changed


\* the step is one that about_to_wait can take and the process survives it
IdlePoint ==
    /\ AppRuns
    /\ app_state' \in about_to_wait(app_state)
    /\ app_state'.process = "running"

\* C29: a Redraw result sets the redraw request, and setting it again
\* changes nothing; at the next about_to_wait that the process survives, no
\* Exit being recorded, one frame is rendered (one error scope is open and
\* is_redrawing is set) and the request is clear; about_to_wait leaves no
\* request behind, and the step that records an Exit clears the request
C29_OneFramePerRedrawRequest ==
    [][/\ process_event_result(app_state, "Redraw").is_redraw_requested
       /\ app_state.is_redraw_requested
            => process_event_result(app_state, "Redraw") = app_state
       /\ ~process_event_result(app_state, "Exit").is_redraw_requested
       /\ (~app_state.exit /\ app_state'.exit)
            => ~app_state'.is_redraw_requested
       /\ IdlePoint
            => /\ ~app_state'.is_redraw_requested
               /\ (app_state.is_redraw_requested
                      /\ ~app_state.exit /\ ~app_state'.exit)
                    => /\ app_state'.is_redrawing
                       /\ app_state'.device.scopes = 1
               /\ app_state'.device.scopes
                    = IF app_state'.is_redrawing THEN 1 ELSE 0
      ]_vars

\* a frame has been rendered on a request and the request is clear
C29_Witness ==
    /\ AppRuns
    /\ app_state.is_redrawing
    /\ app_state.device.scopes = 1
    /\ app_state.device.renders # {}
    /\ ~app_state.is_redraw_requested
    /\ ~app_state.exit


\* C30: the manipulation state is Drag after a press of the left button and
\* Idle after any release (and any press of another button); a pointer move
\* while Idle changes nothing of the app, calls no update() and asks for no
\* redraw; a pointer move while Drag moves the viewport by the pointer
\* delta, calls update() once and asks for a redraw
C30_DragPansIdleMoveDoesNothing ==
    [][AppRuns
          => /\ \A s \in ElementStates, b \in MouseButtons :
                    LET o == mouse_button(fractal_app, b, s)
                    IN  /\ o.app.manipulate_state =
                              IF b = "Left" /\ s = "Pressed"
                                  THEN "Drag" ELSE "Idle"
                        /\ o.result = "Continue"
                        /\ o.app.updates = fractal_app.updates
                        /\ o.app.draft_offset = fractal_app.draft_offset
             /\ \A d \in MouseDeltas :
                    \A o \in mouse_move(fractal_app, d) :
                        IF fractal_app.manipulate_state = "Idle"
                            THEN /\ o.app = fractal_app
                                 /\ o.result = "Continue"
                                 /\ process_event_result(app_state, o.result)
                                       = app_state
                            ELSE /\ o.app.draft_offset
                                       # fractal_app.draft_offset
                                 /\ o.app.draft_scale
                                       = fractal_app.draft_scale
                                 /\ o.app.updates = fractal_app.updates + 1
                                 /\ o.result = "Redraw"
                                 /\ o.app.manipulate_state = "Drag"
             /\ (MouseMove /\ fractal_app.manipulate_state = "Idle")
                    => UNCHANGED <<fractal_app, app_state>>
             /\ (MouseMove /\ fractal_app.manipulate_state = "Drag")
                    => /\ fractal_app'.updates = fractal_app.updates + 1
                       /\ fractal_app'.draft_offset
                             # fractal_app.draft_offset
                       /\ app_state'.is_redraw_requested
             /\ MouseButton
                    => /\ fractal_app'.manipulate_state \in {"Idle", "Drag"}
                       /\ fractal_app'.updates = fractal_app.updates
                       /\ app_state' = app_state
      ]_vars


AppWaiting(t) == AppRuns /\ fractal_app.tile_state[t] = "WaitForUpload"

\* C28: while a tile is WaitForUpload, its TileReady event is on its way or
\* a frame that uploads is requested (or the loop is exiting), and under a
\* fair event loop the tile leaves WaitForUpload, uploaded by a frame or
\* reset by a cache transition, unless the process ends first
C28_WaitingTileIsUploaded ==
    /\ [](\A t \in AppTileIndex :
             AppWaiting(t)
                => \/ fractal_app.events > 0
                   \/ /\ fractal_app.has_update_tiles
                      /\ app_state.is_redraw_requested \/ app_state.exit)
    /\ \A t \in AppTileIndex :
          AppWaiting(t) ~> ~AppWaiting(t)

\* a frame has uploaded a tile after its TileReady event was delivered
C28_Witness ==
    /\ AppRuns
    /\ app_state.is_redrawing
    /\ ~fractal_app.has_update_tiles
    /\ fractal_app.events = 0
    /\ \E t \in AppTileIndex : fractal_app.tile_state[t] = "Ready"


\* a drag has moved the viewport and called update(), and the button is
\* released again
C30_Witness ==
    /\ AppRuns
    /\ fractal_app.manipulate_state = "Idle"
    /\ fractal_app.draft_offset # 0
    /\ fractal_app.draft_scale = 1
    /\ fractal_app.updates > 0
    /\ app_state.is_redraw_requested


\* C39: a press of a button other than the left one leaves the manipulation
\* state as it is, so a drag goes on until a button is released
C39_OtherButtonPressKeepsDrag ==
    AppRuns
        => \A btn \in MouseButtons \ {"Left"} :
              mouse_button(fractal_app, btn, "Pressed").app.manipulate_state
                  = fractal_app.manipulate_state


\* C35: between the load of total_allocated and the read of the length of
\* the available list, the loaded value is never below the length, so the
\* subtraction of taken_buffer_count does not underflow and its result is
\* between 0 and the number of buffers allocated
C35_CountWithinAllocated ==
    pool_obs.pc = "loaded"
        => /\ pool_obs.allocated >= Len(inner.available)
           /\ pool_obs.allocated - Len(inner.available)
                 <= inner.total_allocated



\* C36: while the pool is alive, total_allocated is the length of the
\* available list plus the number of handles that hold a buffer (taken and
\* not yet pushed back), the available list is never longer than
\* total_allocated, and no step lowers total_allocated
C36_AllocatedIsAvailablePlusLive ==
    [][/\ pool_alive'
            => /\ inner'.total_allocated
                    = Len(inner'.available)
                        + Cardinality({h \in HandleIds :
                              handles'[h].pc \in {"live", "upgraded"}})
               /\ Len(inner'.available) <= inner'.total_allocated
       /\ inner'.total_allocated >= inner.total_allocated
      ]_vars

\* the pool is alive, a take has allocated beyond the reserve, one handle
\* was dropped and another is live
C36_Witness ==
    /\ pool_alive
    /\ inner.total_allocated > pool_hist.reserved_count
    /\ HandlesAt({"dropped"}) # {}
    /\ HandlesAt({"live"}) # {}
    /\ Len(inner.available) > 0


\* the front texture holds an upload of tile t made since the last blit, and
\* no cache transition is waiting for its blit
UploadedInCache(t) == texture1.data[t].src = "upload" /\ ~frame_changed

\* C37: an update() that records no cache transition spawns no job for a
\* tile whose buffer was uploaded under the current cache: the tile is
\* Ready or waits for a further upload, never Idle, and update() leaves its
\* state as it is
C37_UploadedTileNotRescheduled ==
    [][(UpdateStep /\ ~upd'.frame_changed)
          => \A t \in TileIndex :
                UploadedInCache(t)
                    => /\ \A j \in tasks' \ tasks : j.tile # t
                       /\ tile_state[t].kind \in {"Ready", "WaitForUpload"}
                       /\ tile_state'[t] = tile_state[t]
      ]_vars

\* an update() without a transition has run over a tile inside the viewport
\* that was uploaded and is Ready
C37_Witness ==
    /\ last_op = "update"
    /\ ~upd.frame_changed
    /\ \E t \in TileIndex :
          /\ UploadedInCache(t)
          /\ tile_state[t] = Ready
          /\ intersects(frame_rect,
                        Tile_fractal_rect(t, TEXTURE_SIZE, fractal_rect))


\* the tiles the update() of this step spawns a job for
Spawned == {j.tile : j \in tasks' \ tasks}

\* C32: update() walks the tile list it has just sorted, so of two tiles it
\* spawns a job for, the one spawned first is not farther from the focus
\* than the other, the distance being taken from the tile's centre under
\* the cache of this update()
C32_SpawnsNearestFirst ==
    [][UpdateStep
          => \A i, k \in 1 .. Len(tiles') :
                (i < k /\ tiles'[i] \in Spawned /\ tiles'[k] \in Spawned)
                    => focus_dist(tiles'[i], fractal_rect', upd'.focus)
                         <= focus_dist(tiles'[k], fractal_rect', upd'.focus)
      ]_vars

\* an update() has spawned jobs for two tiles at different distances from
\* the focus
C32_Witness ==
    /\ last_op = "update"
    /\ \E j, l \in tasks :
          /\ j.upd = upd.no
          /\ l.upd = upd.no
          /\ j.pc = "spawned"
          /\ l.pc = "spawned"
          /\ focus_dist(j.tile, fractal_rect, upd.focus)
                < focus_dist(l.tile, fractal_rect, upd.focus)


\* C33: the buffers render() uploads were computed for the cache rectangle
\* of the moment, and a task whose cancel signal was raised by an update()
\* that has returned never stores its buffer
C33_UploadsAreOfCurrentCache ==
    [][/\ RenderStep
            => \A t \in Waiting : tile_state[t].buffer.rect = fractal_rect
       /\ \A j \in tasks \ tasks' :
              (tile_state'[j.tile] # tile_state[j.tile]
                 /\ tile_state'[j.tile].kind = "WaitForUpload")
                  => cancel_token[j.tile] = j.cancel_token_value
      ]_vars


\* C34: when render() blits a front texture that an earlier render() has
\* filled, the previous cache rectangle it re-projects from is the cache
\* rectangle of that render(), the one the content of the front texture was
\* blitted and uploaded for
C34_BlitSourceIsLastRenderedCache ==
    [][(RenderStep /\ frame_changed /\ frame.rect # zeroed)
          => fractal_rect_prev = frame.rect]_vars


\* the step renders a frame
FrameDrawn ==
    /\ FrameIdle
    /\ app_state'.is_redrawing
    /\ app_state'.process = "running"

\* C31: a resize stores the new window size and runs the scheduler update
\* again, so a frame is drawn with a viewport and a cache that
\* render_fractal() built from the size of the surface it is drawn on
C31_ResizeRunsUpdate ==
    [][/\ Resized
            => /\ fractal_app'.window_size = fractal_app'.surface_size
               /\ fractal_app'.updates = fractal_app.updates + 1
       /\ (FrameDrawn /\ fractal_app.updates > 0)
            => fractal_app.cache_window = fractal_app.surface_size
      ]_vars



\* the tiles that intersect the viewport
InViewport ==
    {t \in TileIndex :
        intersects(frame_rect,
                   Tile_fractal_rect(t, TEXTURE_SIZE, fractal_rect))}

\* no job is queued or running and every permit is back in the semaphore
NoJobLeft == tasks = {} /\ semaphore = cpu_core_count * 2

\* every tile of the viewport shows data computed for the current cache
ViewportIsCurrent ==
    \A t \in InViewport :
        /\ tile_state[t] = Ready
        /\ texture1.data[t].src = "upload"
        /\ texture1.data[t].rect = fractal_rect

Quiesced == NoJobLeft /\ ViewportIsCurrent

\* the runtime has nothing left to do: no task is running or about to
\* store, a spawned task cannot pass the semaphore, and no frame is due
\* (a frame is drawn after update() returned Redraw and after the tile-ready
\* callback asked for one, main.rs lines 236-261); while no update arrives
\* a fairly scheduled behaviour stays in this state for ever
AtRest ==
    /\ upd.no > 0
    /\ \A j \in tasks :
          /\ j.pc = "spawned"
          /\ ~(Cardinality(Active(tasks)) < worker_threads /\ semaphore > 0)
    /\ ~(redraw_requested \/ last_op = "update")

\* C38: the state a fair runtime comes to rest in once the updates have
\* stopped is quiescent: no job is queued or running, every permit is free,
\* and every tile of the viewport is Ready and uploaded with data computed
\* for the current cache rectangle
C38_RestIsQuiescent == AtRest => Quiesced

=============================================================================
